---- MODULE Spec2Model ----
(***************************************************************************)
(* Weekly timetable manager: slot model, conflict detector, track merger   *)
(* and registration state machine of src/src/App.jsx, src/src/lib/time.js  *)
(* and the earlier plain-JS snapshot (src/js/main.js, conflict.js).        *)
(*                                                                         *)
(* Text is modelled as a sequence of one-character strings so that the     *)
(* parsing done by the code (split, trim, padStart, toLowerCase, regular   *)
(* expressions) is computed, not assumed.  A missing (null / undefined)    *)
(* text field is the empty sequence: every use in the source treats null   *)
(* and "" alike (`type || ""`, `typeof time !== "string"` vs. a failed     *)
(* split, `GroupName || ...`).  Day names are plain strings: the loader    *)
(* (sanitizeEntry) stores them trimmed and the code only compares them.    *)
(***************************************************************************)
EXTENDS Integers, Sequences, FiniteSets, TLC

(***************************************************************************)
(* Text primitives (JavaScript String methods used by the source)          *)
(***************************************************************************)
UpperChars == <<"A","B","C","D","E","F","G","H","I","J","K","L","M",
                "N","O","P","Q","R","S","T","U","V","W","X","Y","Z">>

LowerChars == <<"a","b","c","d","e","f","g","h","i","j","k","l","m",
                "n","o","p","q","r","s","t","u","v","w","x","y","z">>

DigitChars == <<"0","1","2","3","4","5","6","7","8","9">>

Range(seq) == {seq[i] : i \in DOMAIN seq}

UpperSet == Range(UpperChars)

LowerSet == Range(LowerChars)

DigitSet == Range(DigitChars)

IsUpper(c) == c \in UpperSet

IsLetter(c) == c \in UpperSet \/ c \in LowerSet

IsDigit(c) == c \in DigitSet

IsSpace(c) == c = " " \/ c = "\t"

IndexIn(seq, c) == CHOOSE i \in DOMAIN seq : seq[i] = c

\* Array.prototype.findIndex with an equality test, 0-based: the index of
\* the first element equal to x, -1 when there is none
findIndex(seq, x) ==
  LET first(hits) == IF hits = {} THEN -1 ELSE (CHOOSE i \in hits : \A j \in hits : i <= j) - 1
  IN  first({i \in DOMAIN seq : seq[i] = x})

\* String.prototype.toLowerCase / toUpperCase, one character
LowerOf == [c \in UpperSet |-> LowerChars[IndexIn(UpperChars, c)]]

UpperOf == [c \in LowerSet |-> UpperChars[IndexIn(LowerChars, c)]]

toLowerChar(c) == IF c \in UpperSet THEN LowerOf[c] ELSE c

toUpperChar(c) == IF c \in LowerSet THEN UpperOf[c] ELSE c

toLowerCase(s) == [i \in DOMAIN s |-> toLowerChar(s[i])]

toUpperCase(s) == [i \in DOMAIN s |-> toUpperChar(s[i])]

removeWhitespace(s) == SelectSeq(s, LAMBDA c : ~IsSpace(c))

includes(s, sub) ==
  \E i \in 1..(Len(s) - Len(sub) + 1) : SubSeq(s, i, i + Len(sub) - 1) = sub

trim(s) ==
  IF \A i \in DOMAIN s : IsSpace(s[i]) THEN <<>>
  ELSE LET lo == CHOOSE i \in DOMAIN s :
                   ~IsSpace(s[i]) /\ \A j \in 1..(i - 1) : IsSpace(s[j])
           cut == CHOOSE k \in 0..(Len(s) - 1) :
                    ~IsSpace(s[Len(s) - k]) /\ \A j \in 0..(k - 1) : IsSpace(s[Len(s) - j])
       IN  SubSeq(s, lo, Len(s) - cut)

\* s.split(sep) for a one-character separator: the pieces between separators
RECURSIVE split(_, _)
split(s, sep) ==
  LET cutAt(found) ==
        IF found < 0 THEN <<s>>
        ELSE <<SubSeq(s, 1, found)>> \o split(SubSeq(s, found + 2, Len(s)), sep)
  IN  cutAt(findIndex(s, sep))

padStart2(s) ==
  IF Len(s) >= 2 THEN s ELSE IF Len(s) = 1 THEN <<"0">> \o s ELSE <<"0","0">>

DigitValue(c) == IndexIn(DigitChars, c) - 1

\* Number("123") for a non-empty run of decimal digits
RECURSIVE DigitsToNumber(_)
DigitsToNumber(ds) ==
  IF ds = <<>> THEN 0
  ELSE 10 * DigitsToNumber(SubSeq(ds, 1, Len(ds) - 1)) + DigitValue(ds[Len(ds)])

\* String(n) for a natural number
RECURSIVE NumberToDigits(_)
NumberToDigits(n) ==
  IF n < 10 THEN <<DigitChars[n + 1]>>
  ELSE NumberToDigits(n \div 10) \o <<DigitChars[(n % 10) + 1]>>

(***************************************************************************)
(* Slot model: src/src/lib/time.js                                         *)
(***************************************************************************)
DAYS == <<"Saturday", "Sunday", "Monday", "Tuesday", "Wednesday", "Thursday">>

TIME_SLOTS ==
  << <<"0","8",":","4","5"," ","-"," ","0","9",":","3","0">>,
     <<"0","9",":","3","0"," ","-"," ","1","0",":","1","5">>,
     <<"1","0",":","1","5"," ","-"," ","1","1",":","0","0">>,
     <<"1","1",":","0","0"," ","-"," ","1","1",":","4","5">>,
     <<"1","1",":","4","5"," ","-"," ","1","2",":","3","0">>,
     <<"1","2",":","3","0"," ","-"," ","1","3",":","1","5">>,
     <<"1","3",":","1","5"," ","-"," ","1","4",":","0","0">>,
     <<"1","4",":","0","0"," ","-"," ","1","4",":","4","5">>,
     <<"1","4",":","4","5"," ","-"," ","1","5",":","3","0">>,
     <<"1","5",":","3","0"," ","-"," ","1","6",":","1","5">>,
     <<"1","6",":","1","5"," ","-"," ","1","7",":","0","0">>,
     <<"1","7",":","0","0"," ","-"," ","1","7",":","4","5">> >>

\* TIME_SLOTS.length
NumSlots == Len(TIME_SLOTS)

DAY_MAP ==
  <<"Sunday", "Monday", "Tuesday", "Wednesday", "Thursday", "Friday", "Saturday">>

normalizeType(type) == removeWhitespace(toLowerCase(type))

forcedSpanByType(type) ==
  IF includes(normalizeType(type), <<"s","u","b">>) THEN 2 ELSE 1

\* null is the empty sequence (a padded clock always holds the colon)
toHHMM(value) ==
  LET padded(parts) ==
        IF Len(parts) < 2 THEN <<>>
        ELSE padStart2(parts[1]) \o <<":">> \o padStart2(parts[2])
  IN  padded(split(value, ":"))

\* Number(entry.DayWeek) indexes DAY_MAP; anything else is "Unknown"
normalizeDay(entry) ==
  IF entry.DayWeekName # "" THEN entry.DayWeekName
  ELSE IF entry.DayWeek \in DOMAIN DAY_MAP THEN DAY_MAP[entry.DayWeek]
  ELSE "Unknown"

\* slot.split("-").map((x) => x.trim()) of every slot label
SlotClocks ==
  LET clocks(parts) == [start |-> trim(parts[1]), end |-> trim(parts[2])]
  IN  [i \in 1..NumSlots |-> clocks(split(TIME_SLOTS[i], "-"))]

\* the start clock of every slot label
SlotStarts == [i \in 1..NumSlots |-> SlotClocks[i].start]

(***************************************************************************)
(* Catalogue: the value of `courses` after loadCourses, every text field   *)
(* already cleaned by sanitizeEntry                                        *)
(***************************************************************************)
TypeGroup == <<"G","r","o","u","p">>

TypeSubGroup == <<"S","u","b","G","r","o","u","p">>

TypeSubSpaced == <<"S","u","b"," ","G","r","o","u","p">>

TypeLab == <<"L","a","b">>

\* the "HH:MM:SS - HH:MM:SS" spelling of slot label i (0-based)
SlotTimeSeconds(i) ==
  SlotClocks[i + 1].start \o <<":","0","0"," ","-"," ">> \o SlotClocks[i + 1].end \o <<":","0","0">>

\* the "HH:MM - HH:MM" spelling of slot label i (0-based)
SlotTime(i) == TIME_SLOTS[i + 1]

Session(groupId, groupName, type, dayName, dayWeek, time) ==
  [GroupId |-> groupId, GroupName |-> groupName, Type |-> type,
   DayWeekName |-> dayName, DayWeek |-> dayWeek, Time |-> time]

\* Course "ops": two lecture groups, two sections.  Section B2 overlaps the
\* course's own lecture group A; section B1 only touches it.
CourseOps ==
  [id |-> "ops", name |-> "Operative",
   sessions |->
     << Session(11, <<"A">>, TypeGroup, "Monday", 2, SlotTimeSeconds(2)),
        Session(12, <<"B">>, TypeGroup, "Tuesday", 3, SlotTimeSeconds(2)),
        Session(13, <<"B","1">>, TypeSubGroup, "Monday", 2, SlotTimeSeconds(3)),
        Session(14, <<"B","2">>, TypeSubSpaced, "Monday", 2, SlotTimeSeconds(2)) >>]

\* Course "mic": lectures only.  Group A meets twice (Monday slot 3 and slot
\* 4, both inside section B1 of "ops"); group B names its day by code only.
CourseMic ==
  [id |-> "mic", name |-> "Microbiology",
   sessions |->
     << Session(21, <<"A">>, TypeGroup, "Monday", 2, SlotTime(3)),
        Session(21, <<"A">>, TypeGroup, "Monday", 2, SlotTime(4)),
        Session(22, <<"B">>, TypeGroup, "", 3, SlotTime(5)) >>]

\* Course "pat": one lecture, two sections.  Section C1 is on Friday, which
\* is not a grid day; section C2 starts in the last slot and has no range.
CoursePat ==
  [id |-> "pat", name |-> "Pathology",
   sessions |->
     << Session(31, <<"C">>, TypeGroup, "Tuesday", 3, SlotTime(2)),
        Session(32, <<"C","1">>, TypeSubGroup, "Friday", 6, SlotTime(2)),
        Session(33, <<"C","2">>, TypeSubGroup, "Monday", 2, SlotTime(11)) >>]

\* Course "pha": one lecture on Monday inside section B1 of "ops".
CoursePha ==
  [id |-> "pha", name |-> "Pharmacology",
   sessions |-> << Session(41, <<"A">>, TypeGroup, "Monday", 2, SlotTime(4)) >>]

AllCourses == <<CourseOps, CourseMic, CoursePat, CoursePha>>

\* the catalogue holds the first NumCourses courses
NumCourses == 3

Catalogue == SubSeq(AllCourses, 1, NumCourses)

\* Catalogue of the planner runs.  Course "alg": one lecture, two sections
\* (C1 on Monday slots [4,6), C2 on Wednesday slots [2,4)).
CourseAlg ==
  [id |-> "alg", name |-> "Algebra",
   sessions |->
     << Session(51, <<"A">>, TypeGroup, "Monday", 2, SlotTime(1)),
        Session(53, <<"C","1">>, TypeSubGroup, "Monday", 2, SlotTime(4)),
        Session(54, <<"C","2">>, TypeSubGroup, "Wednesday", 4, SlotTime(2)) >>]

\* Course "bio": two lecture groups, no section.  Group A starts at 16:15 on
\* Monday; group B is on Wednesday inside section C2 of "alg".
CourseBio ==
  [id |-> "bio", name |-> "Biology",
   sessions |->
     << Session(61, <<"A">>, TypeGroup, "Monday", 2, SlotTime(10)),
        Session(62, <<"B">>, TypeGroup, "Wednesday", 4, SlotTime(3)) >>]

PlanCatalogue == <<CourseAlg, CourseBio>>

\* Course "chm": two lecture groups and three sections.  Lecture B meets
\* with lecture B of "bio"; section C1 leaves two idle slots after lecture A,
\* section C2 follows lecture A at once and section C3 follows lecture B.
CourseChm ==
  [id |-> "chm", name |-> "Chemistry",
   sessions |->
     << Session(71, <<"A">>, TypeGroup, "Monday", 2, SlotTime(1)),
        Session(72, <<"B">>, TypeGroup, "Wednesday", 4, SlotTime(3)),
        Session(73, <<"C","1">>, TypeSubGroup, "Monday", 2, SlotTime(4)),
        Session(74, <<"C","2">>, TypeSubGroup, "Monday", 2, SlotTimeSeconds(2)),
        Session(75, <<"C","3">>, TypeSubGroup, "Wednesday", 4, SlotTime(4)) >>]

\* Catalogue of the direct planner runs: twelve combinations in all
PlannerCatalogue == <<CourseBio, CourseChm>>

StaffA == <<"D","r"," ","A">>

StaffB == <<"D","r"," ","B">>

StaffX == <<"D","r"," ","X">>

\* Course "operative": lecture C on Monday in the first slot; sections C1
\* and C2 meet together on Monday at 12:30.
CourseOperative ==
  [id |-> "operative", name |-> "Operative II",
   sessions |->
     << ([Staff |-> StaffA] @@ Session(81, <<"C">>, TypeGroup, "Monday", 2, SlotTime(0))),
        ([Staff |-> StaffB] @@ Session(83, <<"C","1">>, TypeSubGroup, "Monday", 2, SlotTimeSeconds(5))),
        ([Staff |-> StaffB] @@ Session(84, <<"C","2">>, TypeSubGroup, "Monday", 2, SlotTimeSeconds(5))) >>]

\* Course "ana": lecture A on Monday in slot 3, lecture B on Monday in the
\* first slot (with lecture C of "operative"); no section.
CourseAna ==
  [id |-> "ana", name |-> "Anatomy",
   sessions |->
     << ([Staff |-> StaffA] @@ Session(91, <<"A">>, TypeGroup, "Monday", 2, SlotTime(3))),
        ([Staff |-> StaffA] @@ Session(92, <<"B">>, TypeGroup, "Monday", 2, SlotTime(0))) >>]

TrackCatalogue == <<CourseOperative, CourseAna>>



(***************************************************************************)
(* Slot ranges: src/src/lib/time.js                                        *)
(***************************************************************************)
\* the 0-based index of the slot whose start clock equals the padded start
\* clock of `time`, -1 when there is none (Array.prototype.findIndex)
startSlotIndex(time) ==
  LET indexOf(hhmm) ==
        IF hhmm = <<>> THEN -1
        ELSE findIndex(SlotStarts, hhmm)
  IN  IF time = <<>> THEN -1
      ELSE indexOf(toHHMM(trim(split(time, "-")[1])))

\* slotRange's null result
NoRange == [start |-> -1, end |-> -1, span |-> 0]

\* faulty variant of slotRangeOf: the span may run past the last slot
slotRangeOfUnbounded(start, span) ==
  IF start < 0 THEN NoRange
  ELSE [start |-> start, end |-> start + span, span |-> span]

\* the range slotRange builds from the start index and the span
slotRangeOf(start, span) ==
  IF start < 0 THEN NoRange
  ELSE IF start + span > NumSlots THEN NoRange
  ELSE [start |-> start, end |-> start + span, span |-> span]

slotRange(entry) == slotRangeOf(startSlotIndex(entry.Time), forcedSpanByType(entry.Type))

\* faulty variant of rangesOverlap: ranges that only touch count as overlapping
rangesOverlapTouching(a, b) == a.start <= b.end /\ b.start <= a.end

rangesOverlap(a, b) == a.start < b.end /\ b.start < a.end

Max(x, y) == IF x >= y THEN x ELSE y

Min(x, y) == IF x <= y THEN x ELSE y

\* "" when the ranges do not intersect
overlapLabel(a, b) ==
  LET s == Max(a.start, b.start)
      e == Min(a.end, b.end)
  IN  IF e <= s THEN <<>>
      ELSE SlotClocks[s + 1].start \o <<" ", "-", " ">> \o SlotClocks[e].end

(***************************************************************************)
(* Conflict detector: src/src/App.jsx                                      *)
(***************************************************************************)
isSubgroup(type) == includes(normalizeType(type), <<"s","u","b">>)

isLecture(type) == ~isSubgroup(type)

\* { ...r, ...extra }
Extend(r, extra) == extra @@ r

\* findConflict's null result
NoConflict == [day |-> "", overlap |-> <<>>]

\* normalizeDay and slotRange of every session of a list
placementOf(sessions) ==
  [i \in DOMAIN sessions |->
     [day |-> normalizeDay(sessions[i]), range |-> slotRange(sessions[i])]]

\* the inner loop of findConflict from existing[j] on; `placed` holds the
\* day and the range the loop computes for existing[j]
RECURSIVE findConflictInner(_, _, _, _, _)
findConflictInner(dayA, rangeA, existing, placed, j) ==
  IF j > Len(existing) THEN NoConflict
  ELSE IF dayA # placed[j].day \/ placed[j].range = NoRange
    THEN findConflictInner(dayA, rangeA, existing, placed, j + 1)
  ELSE IF rangesOverlap(rangeA, placed[j].range)
    THEN [day |-> dayA, existing |-> existing[j],
          overlap |-> overlapLabel(rangeA, placed[j].range)]
  ELSE findConflictInner(dayA, rangeA, existing, placed, j + 1)

\* the outer loop of findConflict from candidate[i] on
RECURSIVE findConflictFrom(_, _, _, _, _)
findConflictFrom(candidate, placedCandidate, existing, placedExisting, i) ==
  IF i > Len(candidate) THEN NoConflict
  ELSE IF placedCandidate[i].day \notin Range(DAYS) \/ placedCandidate[i].range = NoRange
    THEN findConflictFrom(candidate, placedCandidate, existing, placedExisting, i + 1)
  ELSE LET orNext(hit) ==
             IF hit # NoConflict THEN hit
             ELSE findConflictFrom(candidate, placedCandidate, existing, placedExisting, i + 1)
       IN  orNext(findConflictInner(placedCandidate[i].day, placedCandidate[i].range,
                                    existing, placedExisting, 1))

\* faulty variant of findConflict: both lists are walked from the end
findConflictBackwards(candidate, existing) ==
  LET reversed(list) == [i \in DOMAIN list |-> list[Len(list) + 1 - i]]
  IN  findConflictFrom(reversed(candidate), placementOf(reversed(candidate)),
                       reversed(existing), placementOf(reversed(existing)), 1)

findConflict(candidate, existing) ==
  findConflictFrom(candidate, placementOf(candidate), existing, placementOf(existing), 1)

sessionsOverlap(a, b) ==
  LET overlap(dayA, dayB, rangeA, rangeB) ==
        IF dayA # dayB THEN FALSE
        ELSE IF rangeA = NoRange \/ rangeB = NoRange THEN FALSE
        ELSE rangesOverlap(rangeA, rangeB)
  IN  overlap(normalizeDay(a), normalizeDay(b), slotRange(a), slotRange(b))

\* a count that compares neighbouring sessions only
countSessionConflictsAdjacent(sessions) ==
  Cardinality({i \in DOMAIN sessions :
                 i < Len(sessions) /\ sessionsOverlap(sessions[i], sessions[i + 1])})

countSessionConflicts(sessions) ==
  Cardinality({p \in (DOMAIN sessions) \X (DOMAIN sessions) :
                 p[1] < p[2] /\ sessionsOverlap(sessions[p[1]], sessions[p[2]])})

(***************************************************************************)
(* Conflict detector of the plain-JS snapshot: conflict.js                 *)
(* (src/unnamed/part_001)                                                  *)
(***************************************************************************)
DAY_ORDER == <<"Sunday", "Monday", "Tuesday", "Wednesday", "Thursday">>

normalizeClock(value) ==
  LET padded(parts) ==
        IF Len(parts) < 2 THEN <<>>
        ELSE padStart2(parts[1]) \o <<":">> \o padStart2(parts[2])
  IN  padded(split(value, ":"))

\* toClockRange's null result
NoClockRange == [startClock |-> <<>>, endClock |-> <<>>]

toClockRange(timeRange) ==
  LET clocks(startClock, endClock) ==
        IF startClock = <<>> \/ endClock = <<>> THEN NoClockRange
        ELSE [startClock |-> startClock, endClock |-> endClock]
      ofParts(parts) ==
        IF Len(parts) # 2 THEN NoClockRange
        ELSE clocks(normalizeClock(trim(parts[1])), normalizeClock(trim(parts[2])))
  IN  IF timeRange = <<>> THEN NoClockRange
      ELSE ofParts(split(timeRange, "-"))

\* SLOT_RANGES[i].startClock and .endClock (i is 1-based here)
SLOT_RANGES ==
  LET slot(i, clocks) ==
        [index |-> i - 1,
         startClock |-> normalizeClock(clocks.start),
         endClock |-> normalizeClock(clocks.end)]
  IN  [i \in 1..NumSlots |-> slot(i, SlotClocks[i])]

getForcedSpanByType(typeText) ==
  LET normalized == normalizeType(typeText)
  IN  IF \/ normalized = <<"s","u","b","g","r","o","u","p">>
         \/ normalized = <<"s","u","b">>
         \/ includes(normalized, <<"s","u","b">>)
         \/ includes(normalized, <<"l","a","b">>)
      THEN 2 ELSE 1

\* parseTimeRangeToSlotRange's null result
NoSlotRange == [startIndex |-> -1, endIndexExclusive |-> -1]

parseTimeRangeToSlotRange(timeRange, typeText) ==
  LET ranged(startIndex, span) ==
        IF startIndex < 0 THEN NoSlotRange
        ELSE IF startIndex + span > NumSlots THEN NoSlotRange
        ELSE [startIndex |-> startIndex, endIndexExclusive |-> startIndex + span]
      located(clocks) ==
        IF clocks = NoClockRange THEN NoSlotRange
        ELSE ranged(findIndex([i \in 1..NumSlots |-> SLOT_RANGES[i].startClock],
                              clocks.startClock),
                    getForcedSpanByType(typeText))
  IN  located(toClockRange(timeRange))

normalizeDayName(entry) ==
  IF entry.DayWeekName # "" THEN entry.DayWeekName
  ELSE IF entry.DayWeek \in 1..7 THEN DAY_MAP[entry.DayWeek]
  ELSE "Unknown"

isSlotOverlap(a, b) ==
  a.startIndex < b.endIndexExclusive /\ b.startIndex < a.endIndexExclusive

formatSlotRange(range) ==
  LET label(slots) ==
        IF range.startIndex + 1 \notin DOMAIN slots
           \/ range.endIndexExclusive \notin DOMAIN slots THEN <<>>
        ELSE slots[range.startIndex + 1].startClock \o <<" ", "-", " ">>
               \o slots[range.endIndexExclusive].endClock
  IN  IF range = NoSlotRange THEN <<>> ELSE label(SLOT_RANGES)

\* findFirstConflict's null result
NoFirstConflict == [overlapSlotRange |-> NoSlotRange]

\* normalizeDayName and parseTimeRangeToSlotRange of every session of a list
plainPlacementOf(sessions) ==
  [i \in DOMAIN sessions |->
     [day |-> normalizeDayName(sessions[i]),
      range |-> parseTimeRangeToSlotRange(sessions[i].Time, sessions[i].Type)]]

\* the inner loop of findFirstConflict from currentSessions[j] on; `placed`
\* holds the day and the range the loop computes for currentSessions[j]
RECURSIVE findFirstConflictInner(_, _, _, _, _, _)
findFirstConflictInner(session, sessionDay, sessionRange, currentSessions, placed, j) ==
  IF j > Len(currentSessions) THEN NoFirstConflict
  ELSE IF sessionDay # placed[j].day \/ placed[j].range = NoSlotRange
    THEN findFirstConflictInner(session, sessionDay, sessionRange, currentSessions, placed, j + 1)
  ELSE IF isSlotOverlap(sessionRange, placed[j].range)
    THEN [candidate |-> session,
          existing |-> currentSessions[j],
          overlapSlotRange |->
            [startIndex |-> Max(sessionRange.startIndex, placed[j].range.startIndex),
             endIndexExclusive |->
               Min(sessionRange.endIndexExclusive, placed[j].range.endIndexExclusive)]]
  ELSE findFirstConflictInner(session, sessionDay, sessionRange, currentSessions, placed, j + 1)

\* the outer loop of findFirstConflict from candidateSessions[i] on
RECURSIVE findFirstConflictFrom(_, _, _, _, _)
findFirstConflictFrom(candidateSessions, placedCandidate, currentSessions, placedCurrent, i) ==
  IF i > Len(candidateSessions) THEN NoFirstConflict
  ELSE IF placedCandidate[i].day \notin Range(DAY_ORDER)
          \/ placedCandidate[i].range = NoSlotRange
    THEN findFirstConflictFrom(candidateSessions, placedCandidate,
                               currentSessions, placedCurrent, i + 1)
  ELSE LET orNext(hit) ==
             IF hit # NoFirstConflict THEN hit
             ELSE findFirstConflictFrom(candidateSessions, placedCandidate,
                                        currentSessions, placedCurrent, i + 1)
       IN  orNext(findFirstConflictInner(candidateSessions[i], placedCandidate[i].day,
                                         placedCandidate[i].range,
                                         currentSessions, placedCurrent, 1))

findFirstConflict(candidateSessions, currentSessions) ==
  findFirstConflictFrom(candidateSessions, plainPlacementOf(candidateSessions),
                        currentSessions, plainPlacementOf(currentSessions), 1)

(***************************************************************************)
(* Track merger: src/src/App.jsx                                           *)
(***************************************************************************)
\* the length of the longest prefix of s whose characters satisfy the class
LeadingLetters(s) ==
  LET stops == {i \in DOMAIN s : ~IsLetter(s[i])}
  IN  IF stops = {} THEN Len(s)
      ELSE (CHOOSE i \in stops : \A j \in stops : i <= j) - 1

LeadingSpaces(s) ==
  LET stops == {i \in DOMAIN s : ~IsSpace(s[i])}
  IN  IF stops = {} THEN Len(s)
      ELSE (CHOOSE i \in stops : \A j \in stops : i <= j) - 1

\* value.match(/^([A-Za-z]+)/): the upper-cased leading letters, "" if none
extractSectionPrefix(groupName) ==
  LET letters(value) == toUpperCase(SubSeq(value, 1, LeadingLetters(value)))
  IN  letters(trim(groupName))

\* parseSectionGroupName's null result
NoParse == [raw |-> <<>>, upper |-> <<>>, prefix |-> <<>>, number |-> -1]

\* value.match(/^([A-Za-z]+)\s*(\d+)$/)
parseSectionGroupName(groupName) ==
  LET parsed(value, nLetters, digits) ==
        IF nLetters = 0 \/ digits = <<>> \/ \E i \in DOMAIN digits : ~IsDigit(digits[i])
          THEN NoParse
        ELSE [raw |-> value,
              upper |-> toUpperCase(value),
              prefix |-> toUpperCase(SubSeq(value, 1, nLetters)),
              number |-> DigitsToNumber(digits)]
      afterSpaces(text) == SubSeq(text, LeadingSpaces(text) + 1, Len(text))
      afterLetters(value, nLetters) ==
        parsed(value, nLetters, afterSpaces(SubSeq(value, nLetters + 1, Len(value))))
      ofValue(value) == afterLetters(value, LeadingLetters(value))
  IN  ofValue(trim(groupName))

\* Primary collation key of one character under the root collation:
\* white space < punctuation < digits < letters, letters without case.
CharRank(c) ==
  IF IsSpace(c) THEN 1
  ELSE IF c = "/" THEN 2
  ELSE IF IsLetter(c) THEN 10 + IndexIn(LowerChars, toLowerChar(c))
  ELSE 3

LeadingDigits(s) ==
  LET stops == {i \in DOMAIN s : ~IsDigit(s[i])}
  IN  IF stops = {} THEN Len(s)
      ELSE (CHOOSE i \in stops : \A j \in stops : i <= j) - 1

\* the primary keys of a text with { numeric: true }: a run of digits is one
\* key ordered by its numeric value
RECURSIVE CollationKeys(_)
CollationKeys(s) ==
  IF s = <<>> THEN <<>>
  ELSE IF IsDigit(s[1])
    THEN LET n == LeadingDigits(s)
         IN  <<[cls |-> 5, val |-> DigitsToNumber(SubSeq(s, 1, n))]>>
               \o CollationKeys(SubSeq(s, n + 1, Len(s)))
  ELSE <<[cls |-> CharRank(s[1]), val |-> 0]>> \o CollationKeys(Tail(s))

RECURSIVE CompareKeys(_, _)
CompareKeys(ka, kb) ==
  IF ka = <<>> /\ kb = <<>> THEN 0
  ELSE IF ka = <<>> THEN -1
  ELSE IF kb = <<>> THEN 1
  ELSE IF ka[1].cls # kb[1].cls THEN (IF ka[1].cls < kb[1].cls THEN -1 ELSE 1)
  ELSE IF ka[1].val # kb[1].val THEN (IF ka[1].val < kb[1].val THEN -1 ELSE 1)
  ELSE CompareKeys(Tail(ka), Tail(kb))

\* the case of the letters, in order: lower case sorts before upper case
CaseKeys(s) ==
  LET letters == SelectSeq(s, IsLetter)
  IN  [i \in DOMAIN letters |-> [cls |-> IF IsUpper(letters[i]) THEN 1 ELSE 0, val |-> 0]]

\* a.localeCompare(b, undefined, { numeric: true })
localeCompareNumeric(a, b) ==
  LET orByCase(primary) ==
        IF primary # 0 THEN primary ELSE CompareKeys(CaseKeys(a), CaseKeys(b))
  IN  orByCase(CompareKeys(CollationKeys(a), CollationKeys(b)))

\* one step of the stable sort: x goes after every element that is not greater
RECURSIVE insertByLabel(_, _)
insertByLabel(sorted, x) ==
  IF sorted = <<>> THEN <<x>>
  ELSE IF localeCompareNumeric(x.label, sorted[1].label) < 0 THEN <<x>> \o sorted
  ELSE <<sorted[1]>> \o insertByLabel(Tail(sorted), x)

\* Array.prototype.sort((a, b) => a.label.localeCompare(b.label, ...)), stable
RECURSIVE sortByLabel(_)
sortByLabel(items) ==
  IF items = <<>> THEN <<>>
  ELSE insertByLabel(sortByLabel(SubSeq(items, 1, Len(items) - 1)), items[Len(items)])

\* `regular-${label}`
RegularId(label) == <<"r","e","g","u","l","a","r","-">> \o label

RegularTrack(label, prefix, sections) ==
  [id |-> RegularId(label), label |-> label, prefix |-> prefix, sections |-> sections,
   isModified |-> FALSE, mode |-> "regular"]

\* the prefixes of the parsed names in first-occurrence order (Map insertion order)
RECURSIVE prefixOrder(_)
prefixOrder(parsed) ==
  IF parsed = <<>> THEN <<>>
  ELSE LET before == prefixOrder(SubSeq(parsed, 1, Len(parsed) - 1))
           p == parsed[Len(parsed)].prefix
       IN  IF p \in Range(before) THEN before ELSE before \o <<p>>

\* byPrefix.get(prefix).get(number): the raw name set last, "" when absent
byNumberGet(parsed, prefix, number) ==
  LET hits == {i \in DOMAIN parsed : parsed[i].prefix = prefix /\ parsed[i].number = number}
  IN  IF hits = {} THEN <<>>
      ELSE parsed[CHOOSE i \in hits : \A j \in hits : j <= i].raw

\* the ascending numbers of one prefix
RECURSIVE ascending(_)
ascending(S) ==
  IF S = {} THEN <<>>
  ELSE LET m == CHOOSE x \in S : \A y \in S : x <= y
       IN  <<m>> \o ascending(S \ {m})

\* the loop over the sorted numbers of one prefix, from numbers[k] on
RECURSIVE pairTracks(_, _, _, _, _)
pairTracks(parsed, prefix, numbers, k, seenStarts) ==
  IF k > Len(numbers) THEN <<>>
  ELSE LET n == numbers[k]
           pairStart == IF n % 2 = 0 THEN n - 1 ELSE n
           first == byNumberGet(parsed, prefix, pairStart)
           second == byNumberGet(parsed, prefix, pairStart + 1)
           sections == SelectSeq(<<first, second>>, LAMBDA x : x # <<>>)
           label == IF Len(sections) = 2
                      THEN prefix \o NumberToDigits(pairStart) \o <<"/">>
                             \o prefix \o NumberToDigits(pairStart + 1)
                    ELSE sections[1]
       IN  IF pairStart \in seenStarts
             THEN pairTracks(parsed, prefix, numbers, k + 1, seenStarts)
           ELSE IF sections = <<>>
             THEN pairTracks(parsed, prefix, numbers, k + 1, seenStarts \cup {pairStart})
           ELSE <<RegularTrack(label, prefix, sections)>>
                  \o pairTracks(parsed, prefix, numbers, k + 1, seenStarts \cup {pairStart})

\* the loop over byPrefix.entries(), from prefixes[k] on
RECURSIVE prefixTracks(_, _, _)
prefixTracks(parsed, prefixes, k) ==
  IF k > Len(prefixes) THEN <<>>
  ELSE LET prefix == prefixes[k]
           numbers == ascending({parsed[i].number : i \in {j \in DOMAIN parsed : parsed[j].prefix = prefix}})
       IN  pairTracks(parsed, prefix, numbers, 1, {}) \o prefixTracks(parsed, prefixes, k + 1)

\* the loop over the sorted unmatched names, from names[k] on
RECURSIVE unmatchedTracks(_, _)
unmatchedTracks(names, k) ==
  IF k > Len(names) THEN <<>>
  ELSE LET name == names[k]
           prefix == extractSectionPrefix(name)
       IN  IF prefix = <<>> THEN unmatchedTracks(names, k + 1)
           ELSE <<RegularTrack(name, prefix, <<name>>)>> \o unmatchedTracks(names, k + 1)

buildMergedTrackOptions(subgroupNames) ==
  LET labelsOf(wrapped) == [i \in DOMAIN wrapped |-> wrapped[i].label]
      sortedNames(names) == labelsOf(sortByLabel([i \in DOMAIN names |-> [label |-> names[i]]]))
      options(parsed, unmatched) ==
        prefixTracks(parsed, prefixOrder(parsed), 1) \o unmatchedTracks(sortedNames(unmatched), 1)
      parsedOf(names) ==
        SelectSeq([i \in DOMAIN names |-> parseSectionGroupName(names[i])],
                  LAMBDA x : x # NoParse)
      unmatchedOf(names) ==
        SelectSeq(names, LAMBDA name : parseSectionGroupName(name) = NoParse)
  IN  sortByLabel(options(parsedOf(subgroupNames), unmatchedOf(subgroupNames)))

(***************************************************************************)
(* Registration state machine: src/src/App.jsx, AppBody                    *)
(***************************************************************************)
VARIABLES
  courses,        \* useState([]) courses, loaded once
  registrations,  \* useState([]) registrations
  notice,         \* useState(null) notice: what the last handler reported
  damagePlans,    \* useState([]) damagePlans
  preview,        \* useState({}) preview: course id -> {lectures, subgroups}
  customTrackOptions,       \* useState([]) customTrackOptions
  trackOverrides,           \* useState({}) trackOverrides
  removedModifiedTrackIds,  \* useState([]) removedModifiedTrackIds
  globalTrackPick,          \* useState("") globalTrackPick
  globalTrack,              \* useState(null) globalTrack
  modifyTrackId,            \* useState("") modifyTrackId
  now,                      \* Date.now()
  input,          \* the arguments of a direct call of an exported function
  output          \* what that call returned

\* the state of the section-track selector and of the modify panel
trackPanel == <<customTrackOptions, trackOverrides, removedModifiedTrackIds,
                globalTrackPick, globalTrack, modifyTrackId, now>>

vars == <<courses, registrations, notice, damagePlans, preview, trackPanel, input, output>>

\* the state of the application, and the record of a direct call
app == <<courses, registrations, notice, damagePlans, preview, trackPanel>>

probe == <<input, output>>

\* preview === {}
NoPreview == <<>>

NoInput == [op |-> "none"]

NoOutput == [op |-> "none"]

coursesById(cs, courseId) ==
  LET hits == {i \in DOMAIN cs : cs[i].id = courseId}
  IN  cs[CHOOSE i \in hits : \A j \in hits : j <= i]

HasCourse(cs, courseId) == \E i \in DOMAIN cs : cs[i].id = courseId

\* the distinct group ids of a course in first-occurrence order
RECURSIVE groupIdOrder(_)
groupIdOrder(sessions) ==
  IF sessions = <<>> THEN <<>>
  ELSE LET before == groupIdOrder(SubSeq(sessions, 1, Len(sessions) - 1))
           id == sessions[Len(sessions)].GroupId
       IN  IF id \in Range(before) THEN before ELSE before \o <<id>>

TextOrDefault(text, default) == IF text # <<>> THEN text ELSE default

collectGroups(course) ==
  LET group(id, sessions) ==
        [id |-> id,
         name |-> TextOrDefault(sessions[1].GroupName,
                                <<"G","r","o","u","p"," ">> \o NumberToDigits(id)),
         type |-> TextOrDefault(sessions[1].Type, TypeGroup),
         sessions |-> sessions]
      groups(ids) ==
        [k \in DOMAIN ids |->
           group(ids[k], SelectSeq(course.sessions, LAMBDA x : x.GroupId = ids[k]))]
  IN  groups(groupIdOrder(course.sessions))

lectureGroupsOf(course) == SelectSeq(collectGroups(course), LAMBDA g : isLecture(g.type))

subgroupGroupsOf(course) == SelectSeq(collectGroups(course), LAMBDA g : isSubgroup(g.type))

\* the sessions of one registration, in catalogue order
sessionsOfRegistration(cs, reg) ==
  LET tagged(course, picked) ==
        [k \in DOMAIN picked |->
           Extend(picked[k], [courseId |-> course.id, courseName |-> course.name,
                              source |-> "registered"])]
      ofCourse(course) ==
        tagged(course, SelectSeq(course.sessions,
                                 LAMBDA x : x.GroupId \in Range(reg.selectedGroupIds)))
  IN  ofCourse(coursesById(cs, reg.courseId))

RECURSIVE flattenSessions(_, _)
flattenSessions(cs, regs) ==
  IF regs = <<>> THEN <<>>
  ELSE LET rest == flattenSessions(cs, SubSeq(regs, 1, Len(regs) - 1))
           reg == regs[Len(regs)]
       IN  IF ~HasCourse(cs, reg.courseId) THEN rest
           ELSE rest \o sessionsOfRegistration(cs, reg)

\* notice === null
NoNotice == [type |-> "none", title |-> ""]

Notice(type, title, message) == [type |-> type, title |-> title, message |-> message]

\* the text shown when overlapLabel yields ""
SlotOverlapText == <<"S","l","o","t"," ","o","v","e","r","l","a","p">>

\* the "Conflict Detected" notice; the fields are the values interpolated
\* into its message
ConflictNotice(course, conflict) ==
  [type |-> "error", title |-> "Conflict Detected",
   course |-> course.name,
   day |-> conflict.day,
   time |-> IF conflict.overlap # <<>> THEN conflict.overlap ELSE SlotOverlapText,
   group |-> conflict.existing.GroupName,
   groupCourse |-> conflict.existing.courseName]

\* [chosenLecture, ...(chosenSub ? [chosenSub] : [])]; pick 0 is the empty pick
chosenIdsOf(lecturePick, subPick) ==
  <<lecturePick>> \o (IF subPick # 0 THEN <<subPick>> ELSE <<>>)

\* the first session of each chosen id that names a group of the course
selectedEntriesOf(course, chosenIds) ==
  LET found == SelectSeq(chosenIds, LAMBDA id : \E i \in DOMAIN course.sessions :
                                                   course.sessions[i].GroupId = id)
  IN  [k \in DOMAIN found |->
         course.sessions[CHOOSE i \in DOMAIN course.sessions :
                           /\ course.sessions[i].GroupId = found[k]
                           /\ \A j \in DOMAIN course.sessions :
                                course.sessions[j].GroupId = found[k] => i <= j]]

\* the message of the "Registration Error" notice, "" when the picks pass
\* faulty variant of validationMessage: the groups of each kind are not counted
validationMessageUncounted(course, lecturePick, subPick) ==
  IF lecturePick = 0 THEN "Select one lecture group first."
  ELSE IF Len(subgroupGroupsOf(course)) > 0 /\ subPick = 0
    THEN "This course requires selecting one section/subgroup."
  ELSE ""

validationMessage(course, lecturePick, subPick) ==
  LET chosenSub == subPick
      hasSubgroups == Len(subgroupGroupsOf(course)) > 0
      counted(selectedEntries) ==
        LET lectureCount == Len(SelectSeq(selectedEntries, LAMBDA x : isLecture(x.Type)))
            subCount == Len(SelectSeq(selectedEntries, LAMBDA x : isSubgroup(x.Type)))
        IN  IF lectureCount > 1 \/ subCount > 1
              THEN "You can only register one lecture and one lab per course."
            ELSE ""
  IN  IF lecturePick = 0 THEN "Select one lecture group first."
      ELSE IF hasSubgroups /\ chosenSub = 0
        THEN "This course requires selecting one section/subgroup."
      ELSE counted(selectedEntriesOf(course, chosenIdsOf(lecturePick, subPick)))

candidateOf(course, chosenIds) ==
  LET picked == SelectSeq(course.sessions, LAMBDA x : x.GroupId \in Range(chosenIds))
  IN  [k \in DOMAIN picked |-> Extend(picked[k], [courseName |-> course.name])]

\* registrations.filter((r) => r.courseId !== selectedCourse.id)
\* faulty variant of othersOf: the course's own registration stays in the list
othersOfAll(regs, courseId) == regs

othersOf(regs, courseId) == SelectSeq(regs, LAMBDA r : r.courseId # courseId)

\* the updater passed to setRegistrations
upsertRegistration(prev, payload) ==
  LET hits == {i \in DOMAIN prev : prev[i].courseId = payload.courseId}
  IN  IF hits = {} THEN prev \o <<payload>>
      ELSE [prev EXCEPT ![CHOOSE i \in hits : \A j \in hits : i <= j] = payload]

\* the registration list and the notice that registerSelection leaves
\* faulty variant of registerSelection: the selection is saved without the
\* conflict check
registerSelectionUnchecked(cs, regs, course, lecturePick, subPick) ==
  LET saved(chosenIds) ==
        [registrations |->
           upsertRegistration(regs, [courseId |-> course.id, selectedGroupIds |-> chosenIds]),
         notice |-> Notice("success", "Saved", "registration updated successfully.")]
      validated(message) ==
        IF message # ""
          THEN [registrations |-> regs,
                notice |-> Notice("error", "Registration Error", message)]
        ELSE saved(chosenIdsOf(lecturePick, subPick))
  IN  validated(validationMessage(course, lecturePick, subPick))

registerSelection(cs, regs, course, lecturePick, subPick) ==
  LET saved(chosenIds) ==
        [registrations |->
           upsertRegistration(regs, [courseId |-> course.id, selectedGroupIds |-> chosenIds]),
         notice |-> Notice("success", "Saved", "registration updated successfully.")]
      checked(chosenIds, conflict) ==
        IF conflict # NoConflict
          THEN [registrations |-> regs, notice |-> ConflictNotice(course, conflict)]
        ELSE saved(chosenIds)
      selected(chosenIds) ==
        checked(chosenIds, findConflict(candidateOf(course, chosenIds),
                                        flattenSessions(cs, othersOf(regs, course.id))))
      validated(message) ==
        IF message # ""
          THEN [registrations |-> regs,
                notice |-> Notice("error", "Registration Error", message)]
        ELSE selected(chosenIdsOf(lecturePick, subPick))
  IN  validated(validationMessage(course, lecturePick, subPick))

\* the values the two radio groups of the form can hold for a course
PickValues(course) == {0} \cup {course.sessions[i].GroupId : i \in DOMAIN course.sessions}


(***************************************************************************)
(* Schedule evaluator: src/src/App.jsx                                     *)
(***************************************************************************)
LATE_THRESHOLD_MINUTES == 16 * 60 + 15

MAX_PLAN_SEARCH_LIMIT == 20000

\* timeToMinutes of a clock made of digits; the slot labels are the only
\* argument
timeToMinutes(hhmm) ==
  LET parts == split(hhmm, ":")
  IN  DigitsToNumber(parts[1]) * 60 + DigitsToNumber(parts[2])

slotStartMinutes(slotLabel) == timeToMinutes(trim(split(slotLabel, "-")[1]))

slotStartByIndex == [i \in DOMAIN TIME_SLOTS |-> slotStartMinutes(TIME_SLOTS[i])]

(***************************************************************************)
(* Section tracks and their overrides: src/src/App.jsx                     *)
(***************************************************************************)
PRESET_C1_MODIFIED_ID ==
  <<"p","r","e","s","e","t","-","c","1","-","m","o","d","i","f","i","e","d">>

FORCED_STAFF_NAME == <<"I","s","l","a","m"," ","B","e","n","d","a","r","y">>

FORCED_STAFF_GROUPS ==
  { <<"C","1">>, <<"C","2">>, <<"B","5">>, <<"B","6">>, <<"B","1">>, <<"B","2">>,
    <<"A","5">>, <<"A","6">>, <<"C","3">>, <<"C","4">>, <<"B","7">>, <<"B","8">> }

DAY_WEEK_BY_NAME ==
  [Sunday |-> 1, Monday |-> 2, Tuesday |-> 3, Wednesday |-> 4, Thursday |-> 5,
   Friday |-> 6, Saturday |-> 7]

\* a field of a data row that the row may lack (undefined)
Get(row, field, absent) == IF field \in DOMAIN row THEN row[field] ELSE absent

\* trackById.get(id) of an id that is no track, and globalTrack === null
NoTrack == [id |-> <<>>]

NoGlobalTrack == [trackId |-> <<>>]

\* trackOverrides === {} and an override map {}
NoOverrides == <<>>

\* `${courseId}|${GroupId}|${DayWeek}|${IntervalId || ""}|${NameEn || ""}`
sessionKeyForTrack(courseId, session) ==
  <<courseId, session.GroupId, session.DayWeek,
    Get(session, "IntervalId", 0), Get(session, "NameEn", <<>>)>>

\* the names of the pair of sections a section name belongs to
pairedSectionGroupNames(groupName) ==
  LET alone(single) == IF single # <<>> THEN <<single>> ELSE <<>>
      pairOf(prefix, pairStart) ==
        <<prefix \o NumberToDigits(pairStart), prefix \o NumberToDigits(pairStart + 1)>>
      names(parsed) ==
        IF parsed = NoParse THEN alone(toUpperCase(trim(groupName)))
        ELSE pairOf(parsed.prefix,
                    IF parsed.number % 2 = 0 THEN parsed.number - 1 ELSE parsed.number)
  IN  names(parseSectionGroupName(groupName))

pairedSectionLabel(groupName) ==
  LET label(pair) ==
        IF pair = <<>> THEN trim(groupName)
        ELSE IF Len(pair) = 1 THEN pair[1]
        ELSE pair[1] \o <<"/">> \o pair[2]
  IN  label(pairedSectionGroupNames(groupName))

applyStaffPreset(session) ==
  IF toUpperCase(trim(session.GroupName)) \in FORCED_STAFF_GROUPS
    THEN Extend(session, [Staff |-> FORCED_STAFF_NAME])
  ELSE session

isPresetC1ModifiedTrack(track) ==
  /\ track # NoTrack
  /\ \/ track.id = PRESET_C1_MODIFIED_ID
     \/ Get(track, "baseTrackId", <<>>) = PRESET_C1_MODIFIED_ID

\* String(courseId).toLowerCase() === "operative"
IsOperative(courseId) == courseId \in {"operative", "Operative", "OPERATIVE"}

PresetC1Time ==
  <<"0","8",":","4","5",":","0","0"," ","-"," ","1","0",":","1","5",":","0","0">>

\* { ...session, Staff: override.Staff ?? session.Staff, ... }
mergeOverride(session, override) ==
  Extend(session,
         [Staff |-> Get(override, "Staff", Get(session, "Staff", <<>>)),
          Time |-> Get(override, "Time", session.Time),
          DayWeekName |-> Get(override, "DayWeekName", session.DayWeekName),
          DayWeek |-> Get(override, "DayWeek", session.DayWeek)])

applyTrackSpecificAdjustments(rawSession, courseId, track, overrideMap) ==
  LET key == sessionKeyForTrack(courseId, rawSession)
      preset(session) ==
        /\ isPresetC1ModifiedTrack(track)
        /\ IsOperative(courseId)
        /\ toUpperCase(trim(session.GroupName)) \in Range(pairedSectionGroupNames(<<"C","1">>))
        /\ includes(session.Time, <<"1","2",":","3","0">>)
      afterPreset(session) ==
        IF preset(session) THEN Extend(session, [Time |-> PresetC1Time]) ELSE session
      result(staffed, timed) ==
        IF key \in DOMAIN overrideMap
          THEN [session |-> mergeOverride(timed, overrideMap[key]),
                isModified |-> TRUE, modifiedReason |-> "Manual modify", key |-> key]
        ELSE [session |-> timed,
              isModified |-> preset(staffed),
              modifiedReason |-> IF preset(staffed) THEN "Time changed for C1 Modified" ELSE "",
              key |-> key]
      ofStaffed(staffed) == result(staffed, afterPreset(staffed))
  IN  ofStaffed(applyStaffPreset(rawSession))

\* subgroupNames: the distinct trimmed names of the section sessions, in
\* first-occurrence order (a Set turned into an array)
RECURSIVE distinctTexts(_)
distinctTexts(texts) ==
  IF texts = <<>> THEN <<>>
  ELSE LET before == distinctTexts(SubSeq(texts, 1, Len(texts) - 1))
           last == texts[Len(texts)]
       IN  IF last = <<>> \/ last \in Range(before) THEN before ELSE before \o <<last>>

RECURSIVE sectionNamesOf(_)
sectionNamesOf(cs) ==
  IF cs = <<>> THEN <<>>
  ELSE LET sections(sessions) == SelectSeq(sessions, LAMBDA x : isSubgroup(x.Type))
           names(sessions) == [i \in DOMAIN sessions |-> trim(sessions[i].GroupName)]
       IN  sectionNamesOf(SubSeq(cs, 1, Len(cs) - 1)) \o names(sections(cs[Len(cs)].sessions))

subgroupNames(cs) == distinctTexts(sectionNamesOf(cs))

baseTrackOptions(cs) == buildMergedTrackOptions(subgroupNames(cs))

\* presetC1ModifiedTrack, NoTrack when no section is named C1
presetC1ModifiedTrack(cs) ==
  LET hasC1(names) == \E i \in DOMAIN names : toUpperCase(names[i]) = <<"C","1">>
  IN  IF ~hasC1(subgroupNames(cs)) THEN NoTrack
      ELSE [id |-> PRESET_C1_MODIFIED_ID,
            label |-> <<"C","1","/","C","2"," ","M","o","d","i","f","i","e","d">>,
            prefix |-> <<"C">>,
            sections |-> << <<"C","1">>, <<"C","2">> >>,
            isModified |-> TRUE,
            mode |-> "modified",
            baseTrackId |-> RegularId(<<"C","1","/","C","2">>)]

\* baseTrackOptions and presetC1ModifiedTrack are memoised on `courses`
\* (useMemo): the options of a catalogue are computed once
LoadedCatalogues == {<<>>, Catalogue, PlanCatalogue, PlannerCatalogue, TrackCatalogue}

FixedTrackOptions ==
  [cs \in LoadedCatalogues |->
     LET preset == presetC1ModifiedTrack(cs)
     IN  baseTrackOptions(cs) \o (IF preset = NoTrack THEN <<>> ELSE <<preset>>)]

trackOptions(cs, customs, removedIds) ==
  LET all == FixedTrackOptions[cs] \o customs
  IN  SelectSeq(all, LAMBDA track : track.id \notin Range(removedIds))

\* trackById.get(id) || null: a Map keeps the last entry of an id
trackById(options, id) ==
  LET hits == {i \in DOMAIN options : options[i].id = id}
  IN  IF hits = {} THEN NoTrack
      ELSE options[CHOOSE i \in hits : \A j \in hits : j <= i]

\* trackOverrides: the override maps in the order their tracks were first
\* given one (the property order of the object), each with its track id.
\* trackOverrides[id] || {}
overrideMapOf(overrides, id) ==
  LET hits == {i \in DOMAIN overrides : overrides[i].id = id}
  IN  IF hits = {} THEN NoOverrides ELSE overrides[CHOOSE i \in hits : TRUE].map

\* { ...prev, [id]: map }
withOverrideMap(overrides, id, map) ==
  IF \E i \in DOMAIN overrides : overrides[i].id = id
    THEN [i \in DOMAIN overrides |->
            IF overrides[i].id = id THEN [id |-> id, map |-> map] ELSE overrides[i]]
  ELSE Append(overrides, [id |-> id, map |-> map])

\* the variant that keeps the entry
withoutOverrideMapKept(overrides, id) == overrides

\* delete next[id]
withoutOverrideMap(overrides, id) == SelectSeq(overrides, LAMBDA entry : entry.id # id)

\* the sessions a track shows: the lectures of its prefix and the sessions of
\* its sections, in catalogue order
tracksSession(prefix, sections, raw) ==
  LET gName == toUpperCase(trim(raw.GroupName))
  IN  \/ isLecture(raw.Type) /\ gName = toUpperCase(prefix)
      \/ isSubgroup(raw.Type)
           /\ gName \in {toUpperCase(trim(sections[i])) : i \in DOMAIN sections}

RECURSIVE globalTrackSessionsOf(_, _, _, _)
globalTrackSessionsOf(cs, track, option, overrideMap) ==
  IF cs = <<>> THEN <<>>
  ELSE LET course == cs[Len(cs)]
           shown == SelectSeq(course.sessions,
                              LAMBDA raw : tracksSession(track.prefix, track.sections, raw))
           row(adjusted) ==
             Extend(adjusted.session,
                    [courseId |-> course.id, courseName |-> course.name, source |-> "track",
                     isModified |-> adjusted.isModified,
                     modifiedReason |-> adjusted.modifiedReason,
                     trackSessionKey |-> adjusted.key])
       IN  globalTrackSessionsOf(SubSeq(cs, 1, Len(cs) - 1), track, option, overrideMap)
             \o [i \in DOMAIN shown |->
                   row(applyTrackSpecificAdjustments(shown[i], course.id, option, overrideMap))]

globalTrackSessions(cs, track, overrides, options) ==
  IF track = NoGlobalTrack \/ track.prefix = <<>> THEN <<>>
  ELSE globalTrackSessionsOf(cs, track, trackById(options, track.trackId),
                             overrideMapOf(overrides, track.trackId))

\* Object.assign(merged, map) over Object.values(trackOverrides)
RECURSIVE globalOverridesMap(_)
globalOverridesMap(overrides) ==
  IF overrides = <<>> THEN NoOverrides
  ELSE overrides[Len(overrides)].map
         @@ globalOverridesMap(SubSeq(overrides, 1, Len(overrides) - 1))

\* shouldSyncWithModified
shouldSyncWithModified(option, overrides) ==
  /\ option # NoTrack
  /\ option.isModified \/ overrideMapOf(overrides, option.id) # NoOverrides

\* s.courseId || s.courseName
courseKeyOf(s) == IF s.courseId # "" THEN s.courseId ELSE s.courseName

\* previewSessions: the lecture or the section sessions of every course whose
\* "All Lectures" or "All Sections" preview is on, in catalogue order
RECURSIVE previewSessions(_, _)
previewSessions(cs, shown) ==
  IF cs = <<>> THEN <<>>
  ELSE LET course == cs[Len(cs)]
           tagged(picked) ==
             [k \in DOMAIN picked |->
                Extend(picked[k], [courseId |-> course.id, courseName |-> course.name,
                                   source |-> "preview"])]
           ofFlags(flags) ==
             tagged(SelectSeq(course.sessions,
                              LAMBDA x : \/ flags.lectures /\ isLecture(x.Type)
                                         \/ flags.subgroups /\ isSubgroup(x.Type)))
       IN  previewSessions(SubSeq(cs, 1, Len(cs) - 1), shown)
             \o (IF course.id \in DOMAIN shown THEN ofFlags(shown[course.id]) ELSE <<>>)

\* the key of tableSessions' and allTrackCandidates' de-duplication
TableKey(session) == <<courseKeyOf(session), session.GroupId, session.DayWeek, session.Time>>

\* the loop of tableSessions that keeps the first session of every key
RECURSIVE dedupByTableKey(_)
dedupByTableKey(sessions) ==
  IF sessions = <<>> THEN <<>>
  ELSE LET before == dedupByTableKey(SubSeq(sessions, 1, Len(sessions) - 1))
           last == sessions[Len(sessions)]
       IN  IF \E i \in DOMAIN before : TableKey(before[i]) = TableKey(last) THEN before
           ELSE before \o <<last>>

\* the loop body of tableSessions before the de-duplication: the staff
\* preset, then the override of any track stored under the session's key
\* (staff and time only), then the adjustments of the active track
tableRow(s, merged, sync, option, activeMap) ==
  LET courseId == Get(s, "courseId", "")
      fromTrack == s.source = "track"
      synced(normalized) ==
        [session |-> IF sessionKeyForTrack(courseId, normalized) \in DOMAIN merged
                       THEN Extend(normalized,
                                   [Staff |-> Get(merged[sessionKeyForTrack(courseId, normalized)],
                                                  "Staff", Get(normalized, "Staff", <<>>)),
                                    Time |-> Get(merged[sessionKeyForTrack(courseId, normalized)],
                                                 "Time", normalized.Time)])
                     ELSE normalized,
         isModified |-> sessionKeyForTrack(courseId, normalized) \in DOMAIN merged,
         modifiedReason |-> IF sessionKeyForTrack(courseId, normalized) \in DOMAIN merged
                              THEN "Synced from modified track" ELSE ""]
      afterGlobal(normalized) ==
        IF fromTrack
          THEN [session |-> normalized,
                isModified |-> Get(s, "isModified", FALSE),
                modifiedReason |-> Get(s, "modifiedReason", "")]
        ELSE synced(normalized)
      marked(before, adjusted) ==
        Extend(adjusted.session,
               [isModified |-> before.isModified \/ adjusted.isModified,
                modifiedReason |-> IF adjusted.isModified THEN adjusted.modifiedReason
                                   ELSE before.modifiedReason])
      afterActive(before) ==
        IF sync /\ ~fromTrack
          THEN marked(before, applyTrackSpecificAdjustments(before.session, courseId,
                                                            option, activeMap))
        ELSE Extend(before.session, [isModified |-> before.isModified,
                                     modifiedReason |-> before.modifiedReason])
  IN  afterActive(afterGlobal(applyStaffPreset(s)))

\* tableSessions: the registered sessions, then those of the selected
\* section track, then the previewed ones, every one adjusted; the first
\* session of every key is kept
tableSessions(registeredSessions, trackSessions, previewed, overrides, option) ==
  LET all == registeredSessions \o trackSessions \o previewed
      rows(merged, sync, activeMap) ==
        [i \in DOMAIN all |-> tableRow(all[i], merged, sync, option, activeMap)]
  IN  dedupByTableKey(rows(globalOverridesMap(overrides),
                           shouldSyncWithModified(option, overrides),
                           IF option = NoTrack THEN NoOverrides
                           ELSE overrideMapOf(overrides, option.id)))

\* occupied: the slot indices added for every grid day
occupiedOf(placement) ==
  [d \in Range(DAYS) |->
     UNION {placement[i].range.start..(placement[i].range.end - 1) :
              i \in {j \in DOMAIN placement :
                       placement[j].day = d /\ placement[j].range # NoRange}}]

\* lateSessions: the keys of the counted sessions that start at or after the
\* threshold
lateSessionsOf(sessions, placement) ==
  {<<placement[i].day, courseKeyOf(sessions[i]), sessions[i].GroupId, sessions[i].Time>> :
     i \in {j \in DOMAIN sessions :
              /\ placement[j].day \in Range(DAYS)
              /\ placement[j].range # NoRange
              /\ slotStartByIndex[placement[j].range.start + 1] >= LATE_THRESHOLD_MINUTES}}

\* a count that starts at the first slot of the grid
gapsOfDayFromZero(used) ==
  IF used = {} THEN 0
  ELSE LET last == CHOOSE x \in used : \A y \in used : y <= x
       IN  Cardinality((0..last) \ used)

\* the unoccupied indices between the first and the last occupied slot
gapsOfDay(used) ==
  IF used = {} THEN 0
  ELSE LET first == CHOOSE x \in used : \A y \in used : x <= y
           last == CHOOSE x \in used : \A y \in used : y <= x
       IN  Cardinality((first..last) \ used)

\* gapSlots accumulated over DAYS[1..k]
RECURSIVE gapSlotsUpTo(_, _)
gapSlotsUpTo(occupied, k) ==
  IF k = 0 THEN 0 ELSE gapSlotsUpTo(occupied, k - 1) + gapsOfDay(occupied[DAYS[k]])

\* the weighted sum cut off instead of rounded
overallOfFloor(scoreDays, scoreGaps, scoreLate, scoreConflict) ==
  (scoreDays * 34 + scoreGaps * 30 + scoreLate * 20 + scoreConflict * 16) \div 100

\* Math.round of the weighted sum, computed in hundredths: the sum of the
\* four products in double precision rounds to the same integer as the exact
\* sum for every value the four scores take
overallOf(scoreDays, scoreGaps, scoreLate, scoreConflict) ==
  (scoreDays * 34 + scoreGaps * 30 + scoreLate * 20 + scoreConflict * 16 + 50) \div 100

scoreRecord(activeDays, gapSlots, after4Sessions, conflictCount) ==
  LET scoreDays == Max(0, 100 - Max(0, activeDays - 1) * 18)
      scoreGaps == Max(0, 100 - gapSlots * 10)
      scoreLate == Max(0, 100 - after4Sessions * 24)
      scoreConflict == Max(0, 100 - conflictCount * 40)
  IN  [activeDays |-> activeDays,
       gapSlots |-> gapSlots,
       after4Sessions |-> after4Sessions,
       conflictCount |-> conflictCount,
       scoreDays |-> scoreDays,
       scoreGaps |-> scoreGaps,
       scoreLate |-> scoreLate,
       scoreConflict |-> scoreConflict,
       overall |-> overallOf(scoreDays, scoreGaps, scoreLate, scoreConflict)]

evaluateSchedule(sessions) ==
  LET scored(placement, occupied) ==
        scoreRecord(Cardinality({d \in DOMAIN occupied : occupied[d] # {}}),
                    gapSlotsUpTo(occupied, Len(DAYS)),
                    Cardinality(lateSessionsOf(sessions, placement)),
                    countSessionConflicts(sessions))
      placed(placement) == scored(placement, occupiedOf(placement))
  IN  placed(placementOf(sessions))

damageOf(score) ==
  score.conflictCount * 1200 + score.gapSlots * 18 + score.after4Sessions * 28
    + score.activeDays * 4

(***************************************************************************)
(* Low-damage planner: src/src/App.jsx                                     *)
(***************************************************************************)
\* ids.join("-")
comboKey(ids) ==
  IF Len(ids) = 1 THEN NumberToDigits(ids[1])
  ELSE NumberToDigits(ids[1]) \o <<"-">> \o NumberToDigits(ids[2])

\* reg.selectedGroupIds.find((id) => choices.some((g) => g.id === id)) || null,
\* null being 0
findCurrentId(selectedGroupIds, choices) ==
  LET hits == {i \in DOMAIN selectedGroupIds :
                 \E k \in DOMAIN choices : choices[k].id = selectedGroupIds[i]}
  IN  IF hits = {} THEN 0
      ELSE selectedGroupIds[CHOOSE i \in hits : \A j \in hits : i <= j]

combosOf(lectureChoices, sectionChoices) ==
  IF sectionChoices = <<>>
    THEN [l \in DOMAIN lectureChoices |->
            [key |-> comboKey(<<lectureChoices[l].id>>),
             groupIds |-> <<lectureChoices[l].id>>,
             lectureId |-> lectureChoices[l].id,
             sectionId |-> 0,
             label |-> lectureChoices[l].name]]
  ELSE [k \in 1..(Len(lectureChoices) * Len(sectionChoices)) |->
          LET lecture == lectureChoices[((k - 1) \div Len(sectionChoices)) + 1]
              section == sectionChoices[((k - 1) % Len(sectionChoices)) + 1]
          IN  [key |-> comboKey(<<lecture.id, section.id>>),
               groupIds |-> <<lecture.id, section.id>>,
               lectureId |-> lecture.id,
               sectionId |-> section.id,
               label |-> lecture.name \o <<" ", "+", " ">> \o pairedSectionLabel(section.name)]]

\* a key that leaves the section out
currentKeyOfLecture(currentLectureId, currentSectionId) ==
  IF currentLectureId = 0 THEN <<>> ELSE NumberToDigits(currentLectureId)

\* the currentKey of a registration; a missing lecture id joins as ""
currentKeyOf(currentLectureId, currentSectionId) ==
  (IF currentLectureId = 0 THEN <<>> ELSE NumberToDigits(currentLectureId))
    \o (IF currentSectionId = 0 THEN <<>> ELSE <<"-">> \o NumberToDigits(currentSectionId))

\* the entry of one registered course, none when it has no lecture group
alternativesOf(reg, course, lectureChoices, sectionChoices) ==
  IF lectureChoices = <<>> THEN <<>>
  ELSE <<[courseId |-> course.id,
          courseName |-> course.name,
          currentKey |-> currentKeyOf(findCurrentId(reg.selectedGroupIds, lectureChoices),
                                      findCurrentId(reg.selectedGroupIds, sectionChoices)),
          combos |-> combosOf(lectureChoices, sectionChoices),
          hasSections |-> Len(sectionChoices) > 0]>>

RECURSIVE registeredCourseAlternatives(_, _)
registeredCourseAlternatives(cs, regs) ==
  IF regs = <<>> THEN <<>>
  ELSE LET ofCourse(reg, course) ==
             alternativesOf(reg, course, lectureGroupsOf(course), subgroupGroupsOf(course))
           ofReg(reg) ==
             IF ~HasCourse(cs, reg.courseId) THEN <<>>
             ELSE ofCourse(reg, coursesById(cs, reg.courseId))
       IN  registeredCourseAlternatives(cs, SubSeq(regs, 1, Len(regs) - 1))
             \o ofReg(regs[Len(regs)])

\* plannerLocks[courseId] || ""
lockKeyOf(locks, courseId) == IF courseId \in DOMAIN locks THEN locks[courseId] ELSE <<>>

\* plannerChangeFlags[courseId] !== false
allowChangeOf(flags, courseId) == IF courseId \in DOMAIN flags THEN flags[courseId] ELSE TRUE

coursesToPlan(alternatives, locks, flags) ==
  [k \in DOMAIN alternatives |->
     LET item == alternatives[k]
         lockKey == lockKeyOf(locks, item.courseId)
         lockMatches == {i \in DOMAIN item.combos : item.combos[i].key = lockKey}
         filtered == IF lockMatches = {} THEN item.combos
                     ELSE <<item.combos[CHOOSE i \in lockMatches : \A j \in lockMatches : i <= j]>>
     IN  Extend(item,
                [allowChange |-> allowChangeOf(flags, item.courseId),
                 choices |-> [i \in DOMAIN filtered |->
                                Extend(filtered[i],
                                       [changeCost |-> IF filtered[i].key = item.currentKey
                                                         THEN 0 ELSE 1])]])]

\* one step of [...coursesToPlan].sort((a, b) => a.choices.length - b.choices.length)
RECURSIVE insertByChoices(_, _)
insertByChoices(sorted, x) ==
  IF sorted = <<>> THEN <<x>>
  ELSE IF Len(x.choices) < Len(sorted[1].choices) THEN <<x>> \o sorted
  ELSE <<sorted[1]>> \o insertByChoices(Tail(sorted), x)

RECURSIVE sortByChoices(_)
sortByChoices(items) ==
  IF items = <<>> THEN <<>>
  ELSE insertByChoices(sortByChoices(SubSeq(items, 1, Len(items) - 1)), items[Len(items)])

\* `plan-${pool.length + 1}`
planId(n) == <<"p","l","a","n","-">> \o NumberToDigits(n)

\* the plan recorded at a complete assignment; `ctx` holds what the closure
\* of dfs reads: cs, regs, coursesToPlan, ordered, maxChanges, currentDamage
\* and the search limit
leafPlan(ctx, selectedChoices, poolLength) ==
  LET fromLabel(course) ==
        LET hits == {i \in DOMAIN course.combos : course.combos[i].key = course.currentKey}
        IN  IF hits = {} THEN <<"C","u","r","r","e","n","t">>
            ELSE TextOrDefault(course.combos[CHOOSE i \in hits : \A j \in hits : i <= j].label,
                               <<"C","u","r","r","e","n","t">>)
      changes(moved) ==
        [k \in DOMAIN moved |->
           [courseId |-> moved[k].courseId,
            courseName |-> moved[k].courseName,
            from |-> fromLabel(moved[k]),
            to |-> selectedChoices[moved[k].courseId].label]]
      plan(nextRegistrations, score, damage, changed) ==
        [id |-> planId(poolLength + 1),
         changes |-> changed,
         changeCount |-> Len(changed),
         nextRegistrations |-> nextRegistrations,
         score |-> score,
         damage |-> damage,
         improves |-> damage < ctx.currentDamage]
      scored(nextRegistrations, score) ==
        plan(nextRegistrations, score, damageOf(score),
             changes(SelectSeq(ctx.coursesToPlan,
                               LAMBDA course :
                                 /\ course.courseId \in DOMAIN selectedChoices
                                 /\ selectedChoices[course.courseId].key # course.currentKey)))
      evaluated(nextRegistrations) ==
        scored(nextRegistrations, evaluateSchedule(flattenSessions(ctx.cs, nextRegistrations)))
  IN  evaluated([i \in DOMAIN ctx.regs |->
                   IF ctx.regs[i].courseId \in DOMAIN selectedChoices
                     THEN [ctx.regs[i] EXCEPT
                             !.selectedGroupIds = selectedChoices[ctx.regs[i].courseId].groupIds]
                   ELSE ctx.regs[i]])

\* dfs(index, selectedChoices, changeCount) returns the pool it leaves; the
\* counter `explored` always equals pool.length.  dfsChoices is the loop
\* over course.choices from choice k on.
RECURSIVE dfs(_, _, _, _, _)
RECURSIVE dfsChoices(_, _, _, _, _, _)
\* a search that never gives up a branch for its number of changes
dfsUnpruned(ctx, index, selectedChoices, changeCount, pool) ==
  IF Len(pool) >= ctx.limit THEN pool
  ELSE IF index > Len(ctx.ordered)
    THEN pool \o <<leafPlan(ctx, selectedChoices, Len(pool))>>
  ELSE dfsChoices(ctx, index, 1, selectedChoices, changeCount, pool)

\* a search that never stops for the number of leaves it has recorded
dfsUncapped(ctx, index, selectedChoices, changeCount, pool) ==
  IF changeCount > ctx.maxChanges THEN pool
  ELSE IF index > Len(ctx.ordered)
    THEN pool \o <<leafPlan(ctx, selectedChoices, Len(pool))>>
  ELSE dfsChoices(ctx, index, 1, selectedChoices, changeCount, pool)

dfs(ctx, index, selectedChoices, changeCount, pool) ==
  IF Len(pool) >= ctx.limit THEN pool
  ELSE IF changeCount > ctx.maxChanges THEN pool
  ELSE IF index > Len(ctx.ordered)
    THEN pool \o <<leafPlan(ctx, selectedChoices, Len(pool))>>
  ELSE dfsChoices(ctx, index, 1, selectedChoices, changeCount, pool)

dfsChoices(ctx, index, k, selectedChoices, changeCount, pool) ==
  LET course == ctx.ordered[index]
      choice == course.choices[k]
  IN  IF k > Len(course.choices) THEN pool
      ELSE IF ~course.allowChange /\ choice.key # course.currentKey
        THEN dfsChoices(ctx, index, k + 1, selectedChoices, changeCount, pool)
      ELSE dfsChoices(ctx, index, k + 1, selectedChoices, changeCount,
                      dfs(ctx, index + 1,
                          Extend(selectedChoices, [x \in {course.courseId} |-> choice]),
                          changeCount + choice.changeCost, pool))

\* a comparator that looks at the number of changes first
comparePlansChangesFirst(a, b) ==
  IF a.changeCount # b.changeCount THEN a.changeCount - b.changeCount
  ELSE IF a.damage # b.damage THEN a.damage - b.damage
  ELSE b.score.overall - a.score.overall

\* the comparator of the ranking: negative when a sorts before b
comparePlans(a, b) ==
  IF a.damage # b.damage THEN a.damage - b.damage
  ELSE IF a.changeCount # b.changeCount THEN a.changeCount - b.changeCount
  ELSE b.score.overall - a.score.overall

RECURSIVE insertByRank(_, _)
insertByRank(sorted, x) ==
  IF sorted = <<>> THEN <<x>>
  ELSE IF comparePlans(x, sorted[1]) < 0 THEN <<x>> \o sorted
  ELSE <<sorted[1]>> \o insertByRank(Tail(sorted), x)

RECURSIVE sortByRank(_)
sortByRank(items) ==
  IF items = <<>> THEN <<>>
  ELSE insertByRank(sortByRank(SubSeq(items, 1, Len(items) - 1)), items[Len(items)])

\* .slice(0, 8)
MAX_RETURNED_PLANS == 8

currentDamageScore(cs, regs, shown, trackSessions, overrides, option) ==
  damageOf(evaluateSchedule(tableSessions(flattenSessions(cs, regs), trackSessions,
                                          previewSessions(cs, shown), overrides, option)))

\* The body of generateDamagePlans under a search limit: the pool of recorded
\* leaves, the plan list and the notice it leaves.
planSearch(limit, cs, regs, alternatives, currentDamage, locks, flags, maxChanges) ==
  LET found(pool, ranked, improved) ==
        IF ranked = <<>>
          THEN [pool |-> pool, plans |-> ranked,
                notice |-> Notice("info", "Damage Planner",
                                  "No valid plan found with current limits.")]
        ELSE [pool |-> pool, plans |-> ranked,
              notice |-> Extend(Notice("success", "Damage Planner",
                                       IF improved > 0
                                         THEN "Found improving plans. Fewer changes are prioritized."
                                       ELSE "Plans generated, but no plan improved the current damage score."),
                                [improved |-> improved])]
      listed(pool, ranked) ==
        found(pool, ranked, Cardinality({i \in DOMAIN ranked : ranked[i].improves}))
      ranking(pool, sorted) ==
        listed(pool, SubSeq(sorted, 1, Min(Len(sorted), MAX_RETURNED_PLANS)))
      ranked(pool) == ranking(pool, sortByRank(pool))
      search(toPlan) ==
        ranked(dfs([cs |-> cs, regs |-> regs, coursesToPlan |-> toPlan,
                    ordered |-> sortByChoices(toPlan), maxChanges |-> maxChanges,
                    currentDamage |-> currentDamage, limit |-> limit],
                   1, <<>>, 0, <<>>))
  IN  IF alternatives = <<>>
        THEN [pool |-> <<>>, plans |-> <<>>,
              notice |-> Notice("info", "Damage Planner", "Register at least one course first.")]
      ELSE search(coursesToPlan(alternatives, locks, flags))

\* the plan list and the notice that generateDamagePlans leaves
generateDamagePlans(cs, regs, alternatives, currentDamage, locks, flags, maxChanges) ==
  planSearch(MAX_PLAN_SEARCH_LIMIT, cs, regs, alternatives, currentDamage, locks, flags,
             maxChanges)

(***************************************************************************)
(* Handlers as actions                                                     *)
(***************************************************************************)
\* the effects that follow a handler: a changed, non-empty globalTrackPick
\* becomes modifyTrackId; an empty modifyTrackId becomes the first track
afterEffects(modifyId, pickBefore, pickAfter, options) ==
  IF pickAfter # pickBefore /\ pickAfter # <<>> THEN pickAfter
  ELSE IF modifyId = <<>> /\ options # <<>> THEN options[1].id
  ELSE modifyId

\* the panel after the catalogue was loaded
TrackPanelAtStart ==
  /\ customTrackOptions = <<>>
  /\ trackOverrides = NoOverrides
  /\ removedModifiedTrackIds = <<>>
  /\ globalTrackPick = <<>>
  /\ globalTrack = NoGlobalTrack
  /\ modifyTrackId = afterEffects(<<>>, <<>>, <<>>, trackOptions(courses, <<>>, <<>>))
  /\ now = 0

\* trackOptions, activeTrackOption and globalTrackSessions of the state
TrackOptions == trackOptions(courses, customTrackOptions, removedModifiedTrackIds)

ActiveTrackOption == trackById(TrackOptions, globalTrackPick)

TrackSessionsShown == globalTrackSessions(courses, globalTrack, trackOverrides, TrackOptions)

Init ==
  /\ courses = Catalogue
  /\ registrations = <<>>
  /\ notice = NoNotice
  /\ damagePlans = <<>>
  /\ preview = NoPreview
  /\ TrackPanelAtStart
  /\ input = NoInput
  /\ output = NoOutput

RegisterSelection ==
  \E c \in DOMAIN courses :
    \E lecturePick \in PickValues(courses[c]), subPick \in PickValues(courses[c]) :
      \E out \in {registerSelection(courses, registrations, courses[c], lecturePick, subPick)} :
        /\ registrations' = out.registrations
        /\ notice' = out.notice
        /\ UNCHANGED <<courses, damagePlans, preview, trackPanel, probe>>

\* the same handler submitted from the form, whose radio groups offer the
\* lecture groups and the section groups of the selected course
SubmitRegistrationForm ==
  \E c \in DOMAIN courses :
    \E lecturePick \in {0} \cup {g.id : g \in Range(lectureGroupsOf(courses[c]))},
       subPick \in {0} \cup {g.id : g \in Range(subgroupGroupsOf(courses[c]))} :
      \E out \in {registerSelection(courses, registrations, courses[c], lecturePick, subPick)} :
        /\ registrations' = out.registrations
        /\ notice' = out.notice
        /\ UNCHANGED <<courses, damagePlans, preview, trackPanel, probe>>

\* the button is rendered for registered courses only
CancelCourseRegistration ==
  \E r \in DOMAIN registrations :
    /\ registrations' = SelectSeq(registrations, LAMBDA x : x.courseId # registrations[r].courseId)
    /\ preview' = [id \in DOMAIN preview \ {registrations[r].courseId} |-> preview[id]]
    /\ notice' = Notice("info", "Cancelled", "Course registration removed.")
    /\ UNCHANGED <<courses, damagePlans, trackPanel, probe>>

ClearAll ==
  /\ registrations' = <<>>
  /\ damagePlans' = <<>>
  /\ preview' = NoPreview
  /\ globalTrack' = NoGlobalTrack
  /\ globalTrackPick' = <<>>
  /\ trackOverrides' = NoOverrides
  /\ customTrackOptions' = <<>>
  /\ removedModifiedTrackIds' = <<>>
  /\ notice' = Notice("info", "Cleared", "All registrations and previews were cleared.")
  /\ modifyTrackId' = afterEffects(modifyTrackId, globalTrackPick, <<>>,
                                    trackOptions(courses, <<>>, <<>>))
  /\ UNCHANGED <<courses, now, probe>>

Next == RegisterSelection \/ CancelCourseRegistration \/ ClearAll

Spec == Init /\ [][Next]_vars

\* The planner panel.  plannerMaxChanges, plannerLocks and plannerChangeFlags
\* are set freely by the panel's controls before the button is pressed (the
\* pruning effect only drops entries of courses that are not planned), so
\* they are the inputs of the handler.
\* the "Max changes" select offers 1, 2 and 3; the values up to
\* MaxChangesTried are tried
MaxChangesTried == 2

PlannerMaxChangesOptions == 1..MaxChangesTried

\* the panel is exercised with at most MaxPinned courses pinned, i.e.
\* locked to one of their combinations or barred from changing
MaxPinned == 1

LockMaps(alternatives) ==
  LET ids == {alternatives[i].courseId : i \in DOMAIN alternatives}
      keysOf(id) == LET item == alternatives[CHOOSE i \in DOMAIN alternatives :
                                               alternatives[i].courseId = id]
                    IN  {item.combos[k].key : k \in DOMAIN item.combos}
      allKeys == UNION {keysOf(id) : id \in ids}
  IN  UNION {{f \in [D -> allKeys] : \A id \in D : f[id] \in keysOf(id)} :
               D \in {E \in SUBSET ids : Cardinality(E) <= MaxPinned}}

FlagMaps(alternatives) ==
  LET ids == {alternatives[i].courseId : i \in DOMAIN alternatives}
  IN  {[id \in D |-> FALSE] : D \in {E \in SUBSET ids : Cardinality(E) <= MaxPinned}}

\* the pairs <<plannerLocks, plannerChangeFlags>> the panel is exercised with
PlannerSettings(alternatives) ==
  {p \in LockMaps(alternatives) \X FlagMaps(alternatives) :
     Cardinality(DOMAIN p[1]) + Cardinality(DOMAIN p[2]) <= MaxPinned}

GenerateDamagePlans ==
  \E alternatives \in {registeredCourseAlternatives(courses, registrations)},
     currentDamage \in {currentDamageScore(courses, registrations, preview,
                                               TrackSessionsShown, trackOverrides,
                                               ActiveTrackOption)} :
    \E plannerMaxChanges \in PlannerMaxChangesOptions,
       settings \in PlannerSettings(alternatives) :
      \E out \in {generateDamagePlans(courses, registrations, alternatives, currentDamage,
                                       settings[1], settings[2], plannerMaxChanges)} :
        /\ damagePlans' = out.plans
        /\ notice' = out.notice
        /\ UNCHANGED <<courses, registrations, preview, trackPanel, probe>>

\* applyDamagePlan(planId): the registrations, the preview and the notice it
\* leaves; the plan is damagePlans.find((item) => item.id === planId)
applyDamagePlan(plans, regs, shown, message, planIdPicked) ==
  LET applied(plan) ==
        [registrations |-> plan.nextRegistrations,
         preview |-> NoPreview,
         notice |-> Extend(Notice("success", "Plan Applied", "Applied plan with change(s)."),
                           [changeCount |-> plan.changeCount])]
      found(hits) ==
        IF hits = {} THEN [registrations |-> regs, preview |-> shown, notice |-> message]
        ELSE applied(plans[CHOOSE i \in hits : \A j \in hits : i <= j])
  IN  found({i \in DOMAIN plans : plans[i].id = planIdPicked})

\* the button of a listed plan
ApplyDamagePlan ==
  \E p \in DOMAIN damagePlans :
    \E out \in {applyDamagePlan(damagePlans, registrations, preview, notice,
                                damagePlans[p].id)} :
      /\ registrations' = out.registrations
      /\ preview' = out.preview
      /\ notice' = out.notice
      /\ UNCHANGED <<courses, damagePlans, trackPanel, probe>>

InitPlan ==
  /\ courses = PlanCatalogue
  /\ registrations = <<>>
  /\ notice = NoNotice
  /\ damagePlans = <<>>
  /\ preview = NoPreview
  /\ TrackPanelAtStart
  /\ input = NoInput
  /\ output = NoOutput

NextPlan ==
  \/ SubmitRegistrationForm
  \/ CancelCourseRegistration
  \/ ClearAll
  \/ GenerateDamagePlans
  \/ ApplyDamagePlan

SpecPlan == InitPlan /\ [][NextPlan]_vars

\* togglePreview(courseId, key): the "All Lectures" button of every course
\* and the "All Sections" button of a course that has a section session.
\* The session is followed up to the planner's run (output = NoOutput).
TogglePreview ==
  \E c \in DOMAIN courses, key \in {"lectures", "subgroups"} :
    /\ output = NoOutput
    /\ key = "subgroups" => \E i \in DOMAIN courses[c].sessions :
                               isSubgroup(courses[c].sessions[i].Type)
    /\ LET courseId == courses[c].id
           current == IF courseId \in DOMAIN preview THEN preview[courseId]
                      ELSE [lectures |-> FALSE, subgroups |-> FALSE]
       IN  preview' = IF current[key] THEN NoPreview
                      ELSE [id \in {courseId} |->
                              [lectures |-> key = "lectures", subgroups |-> key = "subgroups"]]
    /\ UNCHANGED <<courses, registrations, notice, damagePlans, trackPanel, probe>>

\* The planner pressed in a stored session.  The registrations are those
\* that at most MaxSubmissions submissions of the registration form leave
\* (they are saved in localStorage and loaded at the start); the panel's
\* settings and the search limit are the input of the run.
MaxSubmissions == 2

FormPicks(course) ==
  ({0} \cup {g.id : g \in Range(lectureGroupsOf(course))})
    \X ({0} \cup {g.id : g \in Range(subgroupGroupsOf(course))})

RECURSIVE RegistrationsAfter(_, _)
RegistrationsAfter(cs, n) ==
  IF n = 0 THEN {<<>>}
  ELSE LET before == RegistrationsAfter(cs, n - 1)
           submitted(regs, c) ==
             {registerSelection(cs, regs, cs[c], pick[1], pick[2]).registrations :
                pick \in FormPicks(cs[c])}
       IN  before \cup UNION {submitted(regs, c) : regs \in before, c \in DOMAIN cs}

\* at most MaxPlannerSettings locks and cleared "Allow change" boxes are set
MaxPlannerSettings == 2

PlannerLockMaps(alternatives) ==
  LET ids == {alternatives[i].courseId : i \in DOMAIN alternatives}
      keysOf(id) == LET item == alternatives[CHOOSE i \in DOMAIN alternatives :
                                               alternatives[i].courseId = id]
                    IN  {item.combos[k].key : k \in DOMAIN item.combos}
      allKeys == UNION {keysOf(id) : id \in ids}
  IN  UNION {{f \in [D -> allKeys] : \A id \in D : f[id] \in keysOf(id)} : D \in SUBSET ids}

PlannerFlagMaps(alternatives) ==
  LET ids == {alternatives[i].courseId : i \in DOMAIN alternatives}
  IN  {[id \in D |-> FALSE] : D \in SUBSET ids}

\* the search limit of the code, and a limit small enough to be reached
ScaledSearchLimit == 3

PlannerInputs(alternatives) ==
  {[op |-> "plan", maxChanges |-> k, locks |-> p[1], flags |-> p[2], limit |-> limit] :
     k \in PlannerMaxChangesOptions,
     p \in {q \in PlannerLockMaps(alternatives) \X PlannerFlagMaps(alternatives) :
              Cardinality(DOMAIN q[1]) + Cardinality(DOMAIN q[2]) <= MaxPlannerSettings},
     limit \in {ScaledSearchLimit, MAX_PLAN_SEARCH_LIMIT}}

InitPlanner ==
  /\ courses = PlannerCatalogue
  /\ registrations \in RegistrationsAfter(PlannerCatalogue, MaxSubmissions)
  /\ notice = NoNotice
  /\ damagePlans = <<>>
  /\ preview = NoPreview
  /\ TrackPanelAtStart
  /\ input \in PlannerInputs(registeredCourseAlternatives(courses, registrations))
  /\ output = NoOutput

\* generateDamagePlans with the input's settings; the output keeps the pool
\* of recorded leaves and the current damage the run read
SuggestPlans ==
  /\ input.op = "plan"
  /\ output = NoOutput
  /\ \E alternatives \in {registeredCourseAlternatives(courses, registrations)},
        currentDamage \in {currentDamageScore(courses, registrations, preview,
                                               TrackSessionsShown, trackOverrides,
                                               ActiveTrackOption)} :
       \E out \in {planSearch(input.limit, courses, registrations, alternatives, currentDamage,
                               input.locks, input.flags, input.maxChanges)} :
         /\ damagePlans' = out.plans
         /\ notice' = out.notice
         /\ output' = [op |-> "plan", pool |-> out.pool, plans |-> out.plans,
                       currentDamage |-> currentDamage, alternatives |-> alternatives]
  /\ UNCHANGED <<courses, registrations, preview, trackPanel, input>>

NextPlanner == TogglePreview \/ SuggestPlans

SpecPlanner == InitPlanner /\ [][NextPlanner]_vars

(***************************************************************************)
(* The section-track selector and the modify panel as actions              *)
(***************************************************************************)
\* editableTrackSessions: the raw sessions the track shows, in catalogue order
RECURSIVE editableTrackSessions(_, _)
editableTrackSessions(cs, target) ==
  IF cs = <<>> THEN <<>>
  ELSE LET course == cs[Len(cs)]
           shown == SelectSeq(course.sessions,
                              LAMBDA raw : tracksSession(target.prefix, target.sections, raw))
       IN  editableTrackSessions(SubSeq(cs, 1, Len(cs) - 1), target)
             \o [i \in DOMAIN shown |->
                   Extend(shown[i], [courseId |-> course.id, courseName |-> course.name,
                                     sessionKey |-> sessionKeyForTrack(course.id, shown[i])])]

\* the key of the option a session is listed under
editableOptionKey(session) ==
  IF isSubgroup(session.Type)
    THEN <<"pair", session.courseId, pairedSectionLabel(session.GroupName),
           normalizeDay(session), session.Time, Get(session, "NameEn", <<>>)>>
  ELSE <<"single", session.sessionKey>>

\* editableSessionOptions: one option per key with the session keys it
\* targets and its first session
RECURSIVE editableSessionOptionsOf(_)
editableSessionOptionsOf(sessions) ==
  IF sessions = <<>> THEN <<>>
  ELSE LET before == editableSessionOptionsOf(SubSeq(sessions, 1, Len(sessions) - 1))
           session == sessions[Len(sessions)]
           key == editableOptionKey(session)
           added(option) ==
             IF session.sessionKey \in Range(option.targetKeys) THEN option
             ELSE [option EXCEPT !.targetKeys = Append(@, session.sessionKey)]
       IN  IF \E i \in DOMAIN before : before[i].key = key
             THEN [i \in DOMAIN before |->
                     IF before[i].key = key THEN added(before[i]) ELSE before[i]]
           ELSE Append(before, [key |-> key, targetKeys |-> <<session.sessionKey>>,
                                sample |-> session])

editableSessionOptions(cs, target) ==
  IF target = NoTrack THEN <<>>
  ELSE editableSessionOptionsOf(editableTrackSessions(cs, target))

\* `${startText} - ${endText}` of the slots start .. start + span - 1
nextTimeOf(start, span) ==
  SlotClocks[start + 1].start \o <<":","0","0"," ","-"," ">>
    \o SlotClocks[start + span].end \o <<":","0","0">>

\* payload: the fields the form sets
payloadOf(staff, start, day, sample) ==
  (IF trim(staff) # <<>> THEN [Staff |-> trim(staff)] ELSE <<>>)
    @@ (IF start >= 0 THEN [Time |-> nextTimeOf(start, forcedSpanByType(sample.Type))]
        ELSE <<>>)
    @@ (IF day # "" THEN [DayWeekName |-> day, DayWeek |-> DAY_WEEK_BY_NAME[day]] ELSE <<>>)

\* { ...(prev[track] || {}), ...Object.fromEntries(targetKeys.map((key) => [key, payload])) }
seededOverrideMap(oldMap, targetKeys, payload) ==
  [key \in Range(targetKeys) |-> payload] @@ oldMap

\* the same with every entry { ...(prev[track]?.[key] || {}), ...payload }
mergedOverrideMap(oldMap, targetKeys, payload) ==
  [key \in Range(targetKeys) |-> payload @@ Get(oldMap, key, <<>>)] @@ oldMap

\* the variant that never numbers the label
buildAutoModifiedLabelRoot(baseLabel, existingLabels) ==
  trim(trim(baseLabel) \o <<" ","M","o","d","i","f","i","e","d">>)

\* buildAutoModifiedLabel
buildAutoModifiedLabel(baseLabel, existingLabels) ==
  LET root == trim(trim(baseLabel) \o <<" ","M","o","d","i","f","i","e","d">>)
      numbered(index) == root \o <<" ">> \o NumberToDigits(index)
      free == {index \in 2..(Cardinality(existingLabels) + 2) :
                 numbered(index) \notin existingLabels}
  IN  IF root \notin existingLabels THEN root
      ELSE numbered(CHOOSE index \in free : \A other \in free : index <= other)

\* label.toLowerCase().replace(/[^a-z0-9]+/g, "-")
RECURSIVE slugOf(_)
slugOf(text) ==
  IF text = <<>> THEN <<>>
  ELSE LET before == slugOf(SubSeq(text, 1, Len(text) - 1))
           c == toLowerChar(text[Len(text)])
       IN  IF c \in LowerSet \/ c \in DigitSet THEN Append(before, c)
           ELSE IF before # <<>> /\ before[Len(before)] = "-" /\
                   ~(toLowerChar(text[Len(text) - 1]) \in LowerSet \cup DigitSet)
             THEN before
           ELSE Append(before, "-")

CustomPrefix == <<"c","u","s","t","o","m","-">>

\* `custom-${slug}-${Date.now()}`
customIdOf(label, time) == CustomPrefix \o slugOf(label) \o <<"-">> \o NumberToDigits(time)

startsWith(text, prefix) ==
  Len(text) >= Len(prefix) /\ SubSeq(text, 1, Len(prefix)) = prefix

\* the argument of setGlobalTrack for a track
globalTrackOf(track) ==
  [trackId |-> track.id, section |-> track.label, prefix |-> track.prefix,
   sections |-> track.sections, selectedSubgroup |-> track.label,
   isModified |-> track.isModified]

\* applyGlobalSectionTrack(selectedValue) against the trackById of the render
\* the handler runs in: globalTrack and preview after it, and whether it
\* reported the error
applyGlobalSectionTrack(selectedId, options, track, shown) ==
  LET ofTrack(selectedTrack) ==
        IF selectedTrack = NoTrack \/ selectedTrack.prefix = <<>>
          THEN [globalTrack |-> track, preview |-> shown, failed |-> TRUE]
        ELSE [globalTrack |-> globalTrackOf(selectedTrack), preview |-> NoPreview,
              failed |-> FALSE]
  IN  IF selectedId = <<>>
        THEN [globalTrack |-> NoGlobalTrack, preview |-> shown, failed |-> FALSE]
      ELSE ofTrack(trackById(options, selectedId))

TrackNotice == Notice("error", "Section Track", "Could not detect section prefix from group name.")

\* The handlers of the selector and of the modify panel read and set the
\* state below; each is a function from it to the state it leaves, the
\* effects that follow the handler included.
Panel ==
  [customTrackOptions |-> customTrackOptions,
   trackOverrides |-> trackOverrides,
   removedModifiedTrackIds |-> removedModifiedTrackIds,
   globalTrackPick |-> globalTrackPick,
   globalTrack |-> globalTrack,
   modifyTrackId |-> modifyTrackId,
   preview |-> preview,
   notice |-> notice]

SetPanel(panel) ==
  /\ customTrackOptions' = panel.customTrackOptions
  /\ trackOverrides' = panel.trackOverrides
  /\ removedModifiedTrackIds' = panel.removedModifiedTrackIds
  /\ globalTrackPick' = panel.globalTrackPick
  /\ globalTrack' = panel.globalTrack
  /\ modifyTrackId' = panel.modifyTrackId
  /\ preview' = panel.preview
  /\ notice' = panel.notice

optionsOf(cs, panel) == trackOptions(cs, panel.customTrackOptions, panel.removedModifiedTrackIds)

modifyTargetTrack(cs, panel) == trackById(optionsOf(cs, panel), panel.modifyTrackId)

\* the onChange of the track selector above the timetable
selectGlobalTrack(cs, panel, value) ==
  LET options == optionsOf(cs, panel)
      applied == applyGlobalSectionTrack(value, options, panel.globalTrack, panel.preview)
  IN  [panel EXCEPT
         !.globalTrackPick = value,
         !.globalTrack = applied.globalTrack,
         !.preview = applied.preview,
         !.notice = IF applied.failed THEN TrackNotice ELSE @,
         !.modifyTrackId = afterEffects(@, panel.globalTrackPick, value, options)]

\* the onChange of the track selector of the modify panel
selectModifyTrack(cs, panel, value) ==
  [panel EXCEPT
     !.modifyTrackId = afterEffects(value, panel.globalTrackPick, panel.globalTrackPick,
                                    optionsOf(cs, panel))]

modifyError(message) == Notice("error", "Modify", message)

\* applyTrackModification with the form of the modify panel: the mode, the
\* session option (0: none selected), the staff name, the start slot (-1:
\* keep current) and the day ("": keep current); time is Date.now()
applyTrackModification(cs, panel, form, time) ==
  LET created(options, target, picked, payload, label, id) ==
        LET withCopy(copy) ==
              [panel EXCEPT
                 !.customTrackOptions = Append(@, copy),
                 !.trackOverrides =
                    withOverrideMap(@, id,
                                    seededOverrideMap(overrideMapOf(panel.trackOverrides, target.id),
                                                      picked.targetKeys, payload)),
                 !.globalTrackPick = id,
                 !.globalTrack = globalTrackOf(copy),
                 !.notice = Extend(Notice("success", "Modify", "created successfully."),
                                   [label |-> label]),
                 !.modifyTrackId = afterEffects(@, panel.globalTrackPick, id,
                                                Append(options, copy))]
        IN  withCopy([id |-> id, label |-> label, prefix |-> target.prefix,
                      sections |-> target.sections, isModified |-> TRUE,
                      mode |-> "modified", baseTrackId |-> target.id])
      labelled(options, target, picked, payload, label) ==
        created(options, target, picked, payload, label, customIdOf(label, time))
      updated(target, picked, payload, active, applied) ==
        [panel EXCEPT
           !.trackOverrides =
              withOverrideMap(@, target.id,
                              mergedOverrideMap(overrideMapOf(panel.trackOverrides, target.id),
                                                picked.targetKeys, payload)),
           !.globalTrack = IF active THEN applied.globalTrack ELSE @,
           !.preview = IF active THEN applied.preview ELSE @,
           !.notice = Extend(Notice("success", "Modify", "updated successfully."),
                             [label |-> target.label])]
      patched(options, target, picked, payload) ==
        IF payload = <<>>
          THEN [panel EXCEPT !.notice = modifyError("Enter a new staff name, choose a new day, or choose a new start time.")]
        ELSE IF form.mode = "new"
          THEN labelled(options, target, picked, payload,
                        buildAutoModifiedLabel(target.label,
                                               {options[i].label : i \in DOMAIN options}))
        ELSE updated(target, picked, payload, panel.globalTrackPick = target.id,
                     applyGlobalSectionTrack(target.id, options, panel.globalTrack,
                                             panel.preview))
      ofPicked(options, target, picked) ==
        patched(options, target, picked,
                payloadOf(form.staff, form.start, form.day, picked.sample))
      ofTarget(options, target) ==
        IF target = NoTrack
          THEN [panel EXCEPT !.notice = modifyError("Select a section track first.")]
        ELSE IF form.option = 0
          THEN [panel EXCEPT !.notice = modifyError("Select a session to modify.")]
        ELSE ofPicked(options, target, editableSessionOptions(cs, target)[form.option])
      ofOptions(options) == ofTarget(options, trackById(options, panel.modifyTrackId))
  IN  ofOptions(optionsOf(cs, panel))

\* whether the submission passes the checks of the form
modificationAccepted(cs, panel, form) ==
  /\ modifyTargetTrack(cs, panel) # NoTrack
  /\ form.option # 0
  /\ form.staff # <<>> \/ form.start >= 0 \/ form.day # ""

revertTrackChanges(cs, panel) ==
  LET reverted(target, applied, reapplied, pickAfter, options) ==
        [panel EXCEPT
           !.trackOverrides = withoutOverrideMap(@, target.id),
           !.globalTrackPick = pickAfter,
           !.globalTrack = IF reapplied THEN applied.globalTrack ELSE @,
           !.preview = IF reapplied THEN applied.preview ELSE @,
           !.notice = Extend(Notice("info", "Reverted", "changes were reverted."),
                             [label |-> target.label]),
           !.modifyTrackId = afterEffects(@, panel.globalTrackPick, pickAfter, options)]
      selected(options, target, toBase, selectedId) ==
        reverted(target,
                 applyGlobalSectionTrack(selectedId, options, panel.globalTrack, panel.preview),
                 toBase \/ panel.globalTrackPick = target.id,
                 IF toBase THEN selectedId ELSE panel.globalTrackPick,
                 options)
      based(options, target, toBase) ==
        selected(options, target, toBase, IF toBase THEN target.baseTrackId ELSE target.id)
      ofTarget(options, target) ==
        IF target = NoTrack THEN panel
        ELSE based(options, target,
                   target.id = PRESET_C1_MODIFIED_ID /\ Get(target, "baseTrackId", <<>>) # <<>>)
      ofOptions(options) == ofTarget(options, trackById(options, panel.modifyTrackId))
  IN  ofOptions(optionsOf(cs, panel))

removeModifiedTrack(cs, panel) ==
  LET removed(target, fallbackTrackId, active, applied, customsLeft, removedNow) ==
        [panel EXCEPT
           !.trackOverrides = withoutOverrideMap(@, target.id),
           !.customTrackOptions = customsLeft,
           !.removedModifiedTrackIds = removedNow,
           !.globalTrackPick = IF active THEN fallbackTrackId ELSE @,
           !.globalTrack = IF ~active THEN @
                           ELSE IF fallbackTrackId = <<>> THEN NoGlobalTrack
                           ELSE applied.globalTrack,
           !.preview = IF active THEN applied.preview ELSE @,
           !.notice = Extend(Notice("info", "Removed", "was removed."),
                             [label |-> target.label]),
           !.modifyTrackId =
              afterEffects(IF panel.modifyTrackId = target.id THEN fallbackTrackId ELSE @,
                           panel.globalTrackPick,
                           IF active THEN fallbackTrackId ELSE panel.globalTrackPick,
                           trackOptions(cs, customsLeft, removedNow))]
      fallen(options, target, fallbackTrackId) ==
        removed(target, fallbackTrackId, panel.globalTrackPick = target.id,
                applyGlobalSectionTrack(fallbackTrackId, options, panel.globalTrack,
                                        panel.preview),
                IF startsWith(target.id, CustomPrefix)
                  THEN SelectSeq(panel.customTrackOptions, LAMBDA t : t.id # target.id)
                ELSE panel.customTrackOptions,
                IF target.id \in Range(panel.removedModifiedTrackIds)
                  THEN panel.removedModifiedTrackIds
                ELSE Append(panel.removedModifiedTrackIds, target.id))
      ofTarget(options, target) ==
        IF target = NoTrack \/ ~target.isModified THEN panel
        ELSE fallen(options, target, Get(target, "baseTrackId", <<>>))
      ofOptions(options) == ofTarget(options, trackById(options, panel.modifyTrackId))
  IN  ofOptions(optionsOf(cs, panel))

\* "Revert Changes" is rendered while the track of the panel is a modified
\* one or has overrides, "Remove Modified" while it is a modified one
modifyTrackHasChanges(cs, panel) ==
  LET shown(target) ==
        /\ target # NoTrack
        /\ target.isModified \/ overrideMapOf(panel.trackOverrides, target.id) # NoOverrides
  IN  shown(modifyTargetTrack(cs, panel))

modifyTrackIsRemovable(cs, panel) ==
  LET shown(target) == target # NoTrack /\ target.isModified
  IN  shown(modifyTargetTrack(cs, panel))

SelectTrack ==
  \E value \in {<<>>} \cup {TrackOptions[i].id : i \in DOMAIN TrackOptions} :
    /\ SetPanel(selectGlobalTrack(courses, Panel, value))
    /\ UNCHANGED <<courses, registrations, damagePlans, now, probe>>

SelectModifyTrack ==
  \E value \in {<<>>} \cup {TrackOptions[i].id : i \in DOMAIN TrackOptions} :
    /\ SetPanel(selectModifyTrack(courses, Panel, value))
    /\ UNCHANGED <<courses, registrations, damagePlans, now, probe>>

\* The forms submitted.  The clock ticks with every accepted submission, and
\* at most MaxModifications of them are followed.
MaxModifications == 2

ModifyForms(options) ==
  {[mode |-> mode, option |-> option, staff |-> fields[1], start |-> fields[2],
    day |-> fields[3]] :
     mode \in {"regular", "new"},
     option \in 0..Len(options),
     fields \in {<<<<>>, -1, "">>, <<StaffX, -1, "">>, <<<<>>, 3, "">>, <<<<>>, -1, "Tuesday">>}}

ApplyTrackModification ==
  \E form \in ModifyForms(editableSessionOptions(courses, modifyTargetTrack(courses, Panel))) :
    /\ now < MaxModifications
    /\ SetPanel(applyTrackModification(courses, Panel, form, now))
    /\ now' = IF modificationAccepted(courses, Panel, form) THEN now + 1 ELSE now
    /\ UNCHANGED <<courses, registrations, damagePlans, probe>>

RevertTrackChanges ==
  /\ modifyTrackHasChanges(courses, Panel)
  /\ SetPanel(revertTrackChanges(courses, Panel))
  /\ UNCHANGED <<courses, registrations, damagePlans, now, probe>>

RemoveModifiedTrack ==
  /\ modifyTrackIsRemovable(courses, Panel)
  /\ SetPanel(removeModifiedTrack(courses, Panel))
  /\ UNCHANGED <<courses, registrations, damagePlans, now, probe>>

InitTrack ==
  /\ courses = TrackCatalogue
  /\ registrations = <<>>
  /\ notice = NoNotice
  /\ damagePlans = <<>>
  /\ preview = NoPreview
  /\ TrackPanelAtStart
  /\ input = NoInput
  /\ output = NoOutput

NextTrack ==
  \/ SelectTrack
  \/ SelectModifyTrack
  \/ ApplyTrackModification
  \/ RevertTrackChanges
  \/ RemoveModifiedTrack
  \/ ClearAll

SpecTrack == InitTrack /\ [][NextTrack]_vars

\* Registration and planning under a patched track.  The panel is the one
\* that selecting a track (or none) and one accepted "modify same track"
\* submission at time 0 leave; the planner is pressed once, with no lock and
\* every "Allow change" box set.
PanelAtStart(cs) ==
  [customTrackOptions |-> <<>>,
   trackOverrides |-> NoOverrides,
   removedModifiedTrackIds |-> <<>>,
   globalTrackPick |-> <<>>,
   globalTrack |-> NoGlobalTrack,
   modifyTrackId |-> afterEffects(<<>>, <<>>, <<>>, trackOptions(cs, <<>>, <<>>)),
   preview |-> NoPreview,
   notice |-> NoNotice]

PatchedPanels(cs) ==
  LET options == trackOptions(cs, <<>>, <<>>)
      selected == {PanelAtStart(cs)}
                    \cup {selectGlobalTrack(cs, PanelAtStart(cs), options[i].id) :
                            i \in DOMAIN options}
      patched(panel) ==
        {applyTrackModification(cs, panel, form, 0) :
           form \in {f \in ModifyForms(editableSessionOptions(cs, modifyTargetTrack(cs, panel))) :
                       f.mode = "regular" /\ modificationAccepted(cs, panel, f)}}
  IN  UNION {patched(panel) : panel \in selected}

InitPatched ==
  /\ courses = TrackCatalogue
  /\ registrations = <<>>
  /\ damagePlans = <<>>
  /\ \E panel \in PatchedPanels(TrackCatalogue) :
       /\ customTrackOptions = panel.customTrackOptions
       /\ trackOverrides = panel.trackOverrides
       /\ removedModifiedTrackIds = panel.removedModifiedTrackIds
       /\ globalTrackPick = panel.globalTrackPick
       /\ globalTrack = panel.globalTrack
       /\ modifyTrackId = panel.modifyTrackId
       /\ preview = panel.preview
       /\ notice = panel.notice
  /\ now = 1
  /\ input \in {[op |-> "plan", maxChanges |-> k, locks |-> <<>>, flags |-> <<>>,
                  limit |-> MAX_PLAN_SEARCH_LIMIT] : k \in PlannerMaxChangesOptions}
  /\ output = NoOutput

NextPatched == SubmitRegistrationForm \/ SuggestPlans

SpecPatched == InitPatched /\ [][NextPatched]_vars

(***************************************************************************)
(* Direct calls of the exported functions                                  *)
(***************************************************************************)
\* The sessions handed to the functions.  Every choice carries, next to the
\* text the functions read, what the text was written to mean: the day, the
\* 0-based start slot (-1 when the start is no slot start) and the kind.
ProbeDays ==
  { [name |-> "Monday", code |-> 2, day |-> "Monday"],
    [name |-> "", code |-> 3, day |-> "Tuesday"],
    [name |-> "Saturday", code |-> 7, day |-> "Saturday"],
    [name |-> "Friday", code |-> 6, day |-> "Friday"] }

ProbeTimes ==
  { [text |-> SlotTime(2), slot |-> 2],
    [text |-> SlotTime(3), slot |-> 3],
    [text |-> SlotTimeSeconds(2), slot |-> 2],
    [text |-> SlotTime(11), slot |-> 11],
    \* an unpadded start clock
    [text |-> <<"9",":","3","0"," ","-"," ","1","0",":","1","5">>, slot |-> 1],
    \* a raw end time three slots after the start
    [text |-> <<"1","0",":","1","5"," ","-"," ","1","2",":","3","0">>, slot |-> 2],
    \* a start clock without an end clock
    [text |-> <<"1","0",":","1","5">>, slot |-> 2],
    \* a start between two slot starts
    [text |-> <<"0","9",":","0","0"," ","-"," ","0","9",":","4","5">>, slot |-> -1],
    [text |-> <<>>, slot |-> -1] }

ProbeKinds ==
  { [text |-> TypeGroup, section |-> FALSE],
    [text |-> <<"L","e","c","t","u","r","e">>, section |-> FALSE],
    [text |-> <<>>, section |-> FALSE],
    [text |-> TypeSubGroup, section |-> TRUE],
    [text |-> TypeSubSpaced, section |-> TRUE],
    [text |-> TypeLab, section |-> TRUE] }

ProbeSession(groupId, d, t, k) ==
  [entry |-> Extend(Session(groupId, <<"P">>, k.text, d.name, d.code, t.text),
                    [courseId |-> "probe", courseName |-> "Probe"]),
   day |-> d.day, slot |-> t.slot, section |-> k.section]

Probes == {ProbeSession(1, d, t, k) : d \in ProbeDays, t \in ProbeTimes, k \in ProbeKinds}

\* the sessions a probe is compared with: lectures and sections at slots 2
\* and 3 of Monday, Tuesday and Friday
Partners ==
  {ProbeSession(2, d, t, k) :
     d \in {[name |-> "Monday", code |-> 2, day |-> "Monday"],
            [name |-> "Tuesday", code |-> 3, day |-> "Tuesday"],
            [name |-> "Friday", code |-> 6, day |-> "Friday"]},
     t \in {x \in ProbeTimes : x.text \in {SlotTime(2), SlotTime(3)}},
     k \in {x \in ProbeKinds : x.text \in {TypeGroup, TypeSubGroup}}}

InitSessions ==
  /\ courses = <<>>
  /\ registrations = <<>>
  /\ notice = NoNotice
  /\ damagePlans = <<>>
  /\ preview = NoPreview
  /\ TrackPanelAtStart
  /\ input \in {[op |-> "compare", a |-> a, b |-> b] : a \in Probes, b \in Partners}
  /\ output = NoOutput

\* what the functions of time.js, of the conflict detectors and of the
\* evaluator return for session a, and for a against b
CompareSessions ==
  /\ input.op = "compare"
  /\ output = NoOutput
  /\ LET a == input.a.entry
         b == input.b.entry
     IN  output' =
           [op |-> "compare",
            spanA |-> forcedSpanByType(a.Type),
            plainSpanA |-> getForcedSpanByType(a.Type),
            sectionA |-> isSubgroup(a.Type),
            lectureA |-> isLecture(a.Type),
            dayA |-> normalizeDay(a),
            rangeA |-> slotRange(a),
            rangeB |-> slotRange(b),
            plainA |-> parseTimeRangeToSlotRange(a.Time, a.Type),
            plainB |-> parseTimeRangeToSlotRange(b.Time, b.Type),
            overlap |-> sessionsOverlap(a, b),
            conflict |-> findConflict(<<a>>, <<b>>),
            first |-> findFirstConflict(<<a>>, <<b>>),
            score |-> evaluateSchedule(<<a>>)]
  /\ UNCHANGED <<app, input>>

SpecSessions == InitSessions /\ [][CompareSessions]_vars

\* The sessions of the detector runs, each with its own group id.
DetectPool ==
  LET monday == [name |-> "Monday", code |-> 2, day |-> "Monday"]
      byCode == [name |-> "", code |-> 3, day |-> "Tuesday"]
      friday == [name |-> "Friday", code |-> 6, day |-> "Friday"]
      lecture == [text |-> TypeGroup, section |-> FALSE]
      section == [text |-> TypeSubGroup, section |-> TRUE]
      at(i) == [text |-> SlotTime(i), slot |-> i]
  IN  { ProbeSession(1, monday, at(2), lecture),
        ProbeSession(2, monday, [text |-> SlotTimeSeconds(2), slot |-> 2], section),
        ProbeSession(3, monday, at(3), section),
        ProbeSession(4, friday, at(3), lecture),
        ProbeSession(5, monday, at(11), section),
        ProbeSession(6, byCode, at(3), lecture) }

MaxCandidates == 2

MaxExisting == 2

ListsUpTo(S, n) == UNION {[1..k -> S] : k \in 0..n}

InitDetect ==
  /\ courses = <<>>
  /\ registrations = <<>>
  /\ notice = NoNotice
  /\ damagePlans = <<>>
  /\ preview = NoPreview
  /\ TrackPanelAtStart
  /\ input \in {[op |-> "detect", candidate |-> c, existing |-> e] :
                  c \in ListsUpTo(DetectPool, MaxCandidates),
                  e \in ListsUpTo(DetectPool, MaxExisting)}
  /\ output = NoOutput

EntriesOfProbes(list) == [i \in DOMAIN list |-> list[i].entry]

DetectConflict ==
  /\ input.op = "detect"
  /\ output = NoOutput
  /\ output' = [op |-> "detect",
                conflict |-> findConflict(EntriesOfProbes(input.candidate),
                                          EntriesOfProbes(input.existing)),
                first |-> findFirstConflict(EntriesOfProbes(input.candidate),
                                            EntriesOfProbes(input.existing))]
  /\ UNCHANGED <<app, input>>

SpecDetect == InitDetect /\ [][DetectConflict]_vars

\* The sessions of the evaluator runs, each with its own group id.
EvalPool ==
  LET monday == [name |-> "Monday", code |-> 2, day |-> "Monday"]
      byCode == [name |-> "", code |-> 3, day |-> "Tuesday"]
      friday == [name |-> "Friday", code |-> 6, day |-> "Friday"]
      noDay == [name |-> "", code |-> 9, day |-> "Unknown"]
      lecture == [text |-> TypeGroup, section |-> FALSE]
      section == [text |-> TypeSubGroup, section |-> TRUE]
      at(i) == [text |-> SlotTime(i), slot |-> i]
  IN  { ProbeSession(1, monday, at(2), lecture),
        ProbeSession(2, monday, [text |-> SlotTimeSeconds(2), slot |-> 2], section),
        ProbeSession(3, monday, at(5), lecture),
        ProbeSession(4, monday, at(10), lecture),
        ProbeSession(5, monday, at(9), section),
        ProbeSession(6, byCode, at(3), lecture),
        ProbeSession(7, friday, at(3), lecture),
        ProbeSession(8, friday, at(2), section),
        ProbeSession(9, noDay, at(10), lecture),
        ProbeSession(10, monday, at(11), section) }

MaxSessions == 3

InitEval ==
  /\ courses = <<>>
  /\ registrations = <<>>
  /\ notice = NoNotice
  /\ damagePlans = <<>>
  /\ preview = NoPreview
  /\ TrackPanelAtStart
  /\ input \in {[op |-> "evaluate", sessions |-> l] : l \in ListsUpTo(EvalPool, MaxSessions)}
  /\ output = NoOutput

Evaluate ==
  /\ input.op = "evaluate"
  /\ output = NoOutput
  /\ output' = [op |-> "evaluate", score |-> evaluateSchedule(EntriesOfProbes(input.sessions))]
  /\ UNCHANGED <<app, input>>

SpecEval == InitEval /\ [][Evaluate]_vars

\* The sessions, tracks, override maps and patches handed to the override
\* layer.  Lecture group C of "operative" meets on Monday and on Tuesday, so
\* that its two sessions have keys that differ in the day only.
OverridePool ==
  { Extend(Session(81, <<"C">>, TypeGroup, "Monday", 2, SlotTime(0)), [Staff |-> StaffA]),
    Extend(Session(81, <<"C">>, TypeGroup, "Tuesday", 3, SlotTime(0)), [Staff |-> StaffA]),
    Extend(Session(83, <<"C","1">>, TypeSubGroup, "Monday", 2, SlotTimeSeconds(5)),
           [Staff |-> StaffB]) }

OverridePatches ==
  { [Staff |-> StaffX],
    [Time |-> nextTimeOf(3, 1)],
    [DayWeekName |-> "Tuesday", DayWeek |-> DAY_WEEK_BY_NAME["Tuesday"]] }

\* an override map holds at most MaxOverrides entries
MaxOverrides == 2

OverrideMaps ==
  LET keys == {sessionKeyForTrack("operative", s) : s \in OverridePool}
  IN  UNION {[K -> OverridePatches] : K \in {S \in SUBSET keys : Cardinality(S) <= MaxOverrides}}

OverrideTracks ==
  {RegularTrack(<<"C","1","/","C","2">>, <<"C">>, << <<"C","1">>, <<"C","2">> >>),
   presetC1ModifiedTrack(TrackCatalogue)}

InitOverride ==
  /\ courses = <<>>
  /\ registrations = <<>>
  /\ notice = NoNotice
  /\ damagePlans = <<>>
  /\ preview = NoPreview
  /\ TrackPanelAtStart
  /\ input \in {[op |-> "override", session |-> s, courseId |-> "operative", track |-> t,
                 overrideMap |-> m, payload |-> p] :
                  s \in OverridePool, t \in OverrideTracks, m \in OverrideMaps,
                  p \in OverridePatches}
  /\ output = NoOutput

\* applyTrackSpecificAdjustments once, and again on the session it returned;
\* the override map after the patch was submitted for the session's key in
\* "modify same track" mode once, and after it was submitted again
ApplyOverrides ==
  /\ input.op = "override"
  /\ output = NoOutput
  /\ \E once \in {applyTrackSpecificAdjustments(input.session, input.courseId, input.track,
                                                 input.overrideMap)} :
       \E mapOnce \in {mergedOverrideMap(input.overrideMap, <<once.key>>, input.payload)} :
         output' = [op |-> "override",
                    once |-> once,
                    twice |-> applyTrackSpecificAdjustments(once.session, input.courseId,
                                                            input.track, input.overrideMap),
                    mapOnce |-> mapOnce,
                    mapTwice |-> mergedOverrideMap(mapOnce, <<once.key>>, input.payload)]
  /\ UNCHANGED <<app, input>>

SpecOverride == InitOverride /\ [][ApplyOverrides]_vars

\* The section names handed to the track merger, with the prefix and the
\* number a name of the shape letters+integer stands for (number -1: the
\* name is not of that shape; prefix empty: it does not begin with a letter).
NamePool ==
  { [text |-> <<"B","1">>, prefix |-> <<"B">>, number |-> 1],
    [text |-> <<"B","2">>, prefix |-> <<"B">>, number |-> 2],
    [text |-> <<"B","3">>, prefix |-> <<"B">>, number |-> 3],
    [text |-> <<"A","2">>, prefix |-> <<"A">>, number |-> 2],
    [text |-> <<"b","1">>, prefix |-> <<"B">>, number |-> 1],
    [text |-> <<"B"," ","1">>, prefix |-> <<"B">>, number |-> 1],
    [text |-> <<"B","x">>, prefix |-> <<"B">>, number |-> -1],
    [text |-> <<"1","2">>, prefix |-> <<>>, number |-> -1] }

MaxNames == 3

InitTracks ==
  /\ courses = <<>>
  /\ registrations = <<>>
  /\ notice = NoNotice
  /\ damagePlans = <<>>
  /\ preview = NoPreview
  /\ TrackPanelAtStart
  /\ input \in {[op |-> "tracks", names |-> names] :
                  names \in {l \in ListsUpTo(NamePool, MaxNames) :
                               \A i, j \in DOMAIN l : l[i] = l[j] => i = j}}
  /\ output = NoOutput

BuildTracks ==
  /\ input.op = "tracks"
  /\ output = NoOutput
  /\ output' = [op |-> "tracks",
                tracks |-> buildMergedTrackOptions([i \in DOMAIN input.names |->
                                                      input.names[i].text])]
  /\ UNCHANGED <<app, input>>

SpecTracks == InitTracks /\ [][BuildTracks]_vars

(***************************************************************************)
(* Properties                                                              *)
(***************************************************************************)
\* the slot indices a session occupies, none when it has no slot range
SlotsOf(session) ==
  LET range == slotRange(session)
  IN  IF range = NoRange THEN {} ELSE range.start..(range.end - 1)

OnGridDay(session) == normalizeDay(session) \in Range(DAYS)

\* two sessions take a common slot of the same day
Clash(a, b) == normalizeDay(a) = normalizeDay(b) /\ SlotsOf(a) \cap SlotsOf(b) # {}

RegisteredSessions == flattenSessions(courses, registrations)

\* C1: no two sessions of the registered session set (the lecture and the
\* section of one course included) that have a grid day and a slot range
\* overlap on the same day.
C1_NoRegisteredOverlap ==
  \A i, j \in DOMAIN RegisteredSessions :
    (i < j /\ OnGridDay(RegisteredSessions[i]) /\ OnGridDay(RegisteredSessions[j]))
      => ~Clash(RegisteredSessions[i], RegisteredSessions[j])

\* the sessions of the groups picked in the form, in catalogue order
PickedSessions(course, lecturePick, subPick) ==
  SelectSeq(course.sessions, LAMBDA x : x.GroupId \in ({lecturePick, subPick} \ {0}))

\* the registered sessions of the courses other than `course`
OtherSessions(course) ==
  flattenSessions(courses, SelectSeq(registrations, LAMBDA r : r.courseId # course.id))

\* candidate[i] is on a grid day and overlaps existing[j]
Blocks(candidate, existing, i, j) == OnGridDay(candidate[i]) /\ Clash(candidate[i], existing[j])

BlockingPairs(candidate, existing) ==
  {p \in (DOMAIN candidate) \X (DOMAIN existing) : Blocks(candidate, existing, p[1], p[2])}

\* the first pair in candidate-then-existing order
FirstPair(pairs) ==
  CHOOSE p \in pairs :
    \A q \in pairs : p[1] < q[1] \/ (p[1] = q[1] /\ p[2] <= q[2])

\* "HH:MM - HH:MM" from the start of the first to the end of the last slot
LabelOfSlots(slots) ==
  LET first == CHOOSE x \in slots : \A y \in slots : x <= y
      last == CHOOSE x \in slots : \A y \in slots : y <= x
  IN  SlotClocks[first + 1].start \o <<" ", "-", " ">> \o SlotClocks[last + 1].end

\* C2: a registerSelection call whose candidate sessions overlap a session
\* of another registered course is rejected with a conflict notice naming
\* the day, the overlap range and the first conflicting existing session,
\* and it leaves the registration list as it was.
C2_ConflictRejected ==
  \A c \in DOMAIN courses :
    \A lecturePick \in PickValues(courses[c]), subPick \in PickValues(courses[c]) :
      LET course == courses[c]
          candidate == PickedSessions(course, lecturePick, subPick)
          existing == OtherSessions(course)
          pairs == BlockingPairs(candidate, existing)
          out == registerSelection(courses, registrations, course, lecturePick, subPick)
      IN  (validationMessage(course, lecturePick, subPick) = "" /\ pairs # {})
            => LET a == candidate[FirstPair(pairs)[1]]
                   b == existing[FirstPair(pairs)[2]]
               IN  /\ out.registrations = registrations
                   /\ out.notice.type = "error"
                   /\ out.notice.title = "Conflict Detected"
                   /\ out.notice.day = normalizeDay(a)
                   /\ out.notice.time = LabelOfSlots(SlotsOf(a) \cap SlotsOf(b))
                   /\ out.notice.group = b.GroupName
                   /\ out.notice.groupCourse = b.courseName

\* C2 witness: a call was rejected for a conflict while two courses stay registered
C2_Witness ==
  /\ notice.title = "Conflict Detected"
  /\ Len(registrations) >= 2

\* the groups of a course among the given ids that are of lecture kind
LectureGroupsAmong(course, ids) ==
  {g \in Range(collectGroups(course)) : g.id \in ids /\ isLecture(g.type)}

SectionGroupsAmong(course, ids) ==
  {g \in Range(collectGroups(course)) : g.id \in ids /\ isSubgroup(g.type)}

\* C3: an attempt that picks no lecture group, or whose picks resolve to
\* more than one lecture-kind or more than one section-kind group, is
\* rejected with a validation error and leaves the registration list as it
\* was; every stored registration holds at most one lecture-kind and at
\* most one section-kind group.
C3_ValidationRejected ==
  /\ \A c \in DOMAIN courses :
       \A lecturePick \in PickValues(courses[c]), subPick \in PickValues(courses[c]) :
         LET course == courses[c]
             ids == {lecturePick, subPick} \ {0}
             out == registerSelection(courses, registrations, course, lecturePick, subPick)
         IN  (\/ LectureGroupsAmong(course, ids) = {}
              \/ Cardinality(LectureGroupsAmong(course, ids)) > 1
              \/ Cardinality(SectionGroupsAmong(course, ids)) > 1)
               => /\ out.notice.type = "error"
                  /\ out.notice.title = "Registration Error"
                  /\ out.registrations = registrations
  /\ \A r \in DOMAIN registrations :
       LET course == coursesById(courses, registrations[r].courseId)
           ids == Range(registrations[r].selectedGroupIds)
       IN  /\ Cardinality(LectureGroupsAmong(course, ids)) <= 1
           /\ Cardinality(SectionGroupsAmong(course, ids)) <= 1

\* C3 witness: a second lecture group was refused while the course's earlier
\* registration is still stored
C3_Witness ==
  /\ notice.title = "Registration Error"
  /\ notice.message = "You can only register one lecture and one lab per course."
  /\ registrations # <<>>

\* the positions of a course in the registration list
EntriesOf(courseId) == {k \in DOMAIN registrations : registrations[k].courseId = courseId}

\* C4: the registration list holds at most one entry per course id; a
\* successful registerSelection for an already registered course replaces
\* that course's entry in place with the new selection and leaves every
\* other entry as it was, and a valid selection that overlaps no session of
\* another registered course is saved even when it overlaps the course's own
\* previous selection.
C4_OneEntryPerCourse ==
  /\ \A i, j \in DOMAIN registrations :
       registrations[i].courseId = registrations[j].courseId => i = j
  /\ \A c \in DOMAIN courses :
       \A lecturePick \in PickValues(courses[c]), subPick \in PickValues(courses[c]) :
         LET course == courses[c]
             candidate == PickedSessions(course, lecturePick, subPick)
             existing == OtherSessions(course)
             selection == IF subPick = 0 THEN <<lecturePick>> ELSE <<lecturePick, subPick>>
             out == registerSelection(courses, registrations, course, lecturePick, subPick)
         IN  EntriesOf(course.id) # {}
               => /\ (/\ validationMessage(course, lecturePick, subPick) = ""
                      /\ BlockingPairs(candidate, existing) = {})
                       => out.notice.title = "Saved"
                  /\ out.notice.title = "Saved"
                       => /\ Len(out.registrations) = Len(registrations)
                          /\ \A k \in DOMAIN registrations :
                               out.registrations[k] =
                                 IF k \in EntriesOf(course.id)
                                   THEN [courseId |-> course.id, selectedGroupIds |-> selection]
                                 ELSE registrations[k]

\* C4 witness: a course's selection was saved anew after plans had been
\* drawn up for its earlier selection, and it still holds the one entry it
\* held then
C4_Witness ==
  /\ notice.title = "Saved"
  /\ \E p \in DOMAIN damagePlans :
       LET before == damagePlans[p].nextRegistrations
       IN  /\ damagePlans[p].changeCount = 0
           /\ Len(before) = Len(registrations)
           /\ \A k \in DOMAIN before : before[k].courseId = registrations[k].courseId
           /\ \E k \in DOMAIN before :
                /\ before[k].selectedGroupIds # registrations[k].selectedGroupIds
                /\ before[k].selectedGroupIds[1] = registrations[k].selectedGroupIds[1]

\* the strict-inequality rule on two half-open ranges
Intersect(startA, endA, startB, endB) == startA < endB /\ startB < endA

\* C5: two sessions with slot ranges are reported as overlapping iff they
\* are on the same day and a.start < b.end and b.start < a.end; sessions on
\* different days never overlap; [2,3) and [3,5) only touch and do not
\* overlap; [2,4) and [3,5) overlap and the reported overlap is
\* [max(starts), min(ends)) = [3,4).  The candidate of a detector is on one
\* of the detector's configured days.
C5_OverlapRule ==
  output.op = "compare" =>
    LET a == input.a
        b == input.b
        ra == output.rangeA
        rb == output.rangeB
        pa == output.plainA
        pb == output.plainB
    IN  /\ (ra # NoRange /\ rb # NoRange) =>
             LET rule == a.day = b.day /\ Intersect(ra.start, ra.end, rb.start, rb.end)
                 from == Max(ra.start, rb.start)
                 to == Min(ra.end, rb.end)
             IN  /\ output.overlap <=> rule
                 /\ a.day \in Range(DAYS) => ((output.conflict # NoConflict) <=> rule)
                 /\ output.conflict # NoConflict =>
                      /\ from < to
                      /\ output.conflict.day = a.day
                      /\ output.conflict.existing = b.entry
                      /\ output.conflict.overlap = LabelOfSlots(from..(to - 1))
                 /\ (ra.start = 2 /\ ra.end = 3 /\ rb.start = 3 /\ rb.end = 5) =>
                      (~output.overlap /\ output.conflict = NoConflict)
                 /\ (a.day = "Monday" /\ b.day = "Monday"
                       /\ ra.start = 2 /\ ra.end = 4 /\ rb.start = 3 /\ rb.end = 5) =>
                      /\ output.overlap
                      /\ output.conflict.overlap =
                           <<"1","1",":","0","0"," ","-"," ","1","1",":","4","5">>
        /\ (pa # NoSlotRange /\ pb # NoSlotRange /\ a.day \in Range(DAY_ORDER)) =>
             LET rule == /\ a.day = b.day
                         /\ Intersect(pa.startIndex, pa.endIndexExclusive,
                                      pb.startIndex, pb.endIndexExclusive)
             IN  /\ (output.first # NoFirstConflict) <=> rule
                 /\ output.first # NoFirstConflict =>
                      /\ output.first.candidate = a.entry
                      /\ output.first.existing = b.entry
                      /\ output.first.overlapSlotRange =
                           [startIndex |-> Max(pa.startIndex, pb.startIndex),
                            endIndexExclusive |->
                              Min(pa.endIndexExclusive, pb.endIndexExclusive)]
                      /\ output.first.overlapSlotRange.startIndex
                           < output.first.overlapSlotRange.endIndexExclusive

\* C5 witness: a section at slots [2,4) was compared with a section at
\* slots [3,5) of the same Monday and the overlap 11:00 - 11:45 was reported
C5_Witness ==
  /\ output.op = "compare"
  /\ input.a.day = "Monday" /\ input.b.day = "Monday"
  /\ input.a.slot = 2 /\ input.a.section
  /\ input.b.slot = 3 /\ input.b.section
  /\ output.overlap
  /\ output.conflict # NoConflict
  /\ output.conflict.overlap = <<"1","1",":","0","0"," ","-"," ","1","1",":","4","5">>
  /\ output.first # NoFirstConflict
  /\ output.first.overlapSlotRange = [startIndex |-> 3, endIndexExclusive |-> 4]

\* the pairs (i, j) of a schedulable candidate and a schedulable existing
\* session that take a common slot of the same day; `days` are the
\* detector's configured days
SpanOfProbe(x) == IF x.section THEN 2 ELSE 1

HasRange(x) == x.slot >= 0 /\ x.slot + SpanOfProbe(x) <= 12

OverlappingPairs(candidate, existing, days) ==
  {p \in (DOMAIN candidate) \X (DOMAIN existing) :
     LET a == candidate[p[1]]
         b == existing[p[2]]
     IN  /\ a.day \in days /\ HasRange(a) /\ HasRange(b)
         /\ a.day = b.day
         /\ Intersect(a.slot, a.slot + SpanOfProbe(a), b.slot, b.slot + SpanOfProbe(b))}

\* C6: findConflict returns null iff no pair of a schedulable candidate and
\* a schedulable existing session overlaps; otherwise it returns the
\* conflict of the first overlapping pair (i, j) in candidate-then-existing
\* order.  A candidate that is not on a configured day or has no slot range,
\* and an existing session without a slot range, never appear in a returned
\* conflict and never block.
C6_FirstConflict ==
  output.op = "detect" =>
    LET candidate == input.candidate
        existing == input.existing
        pairs == OverlappingPairs(candidate, existing, Range(DAYS))
        plainPairs == OverlappingPairs(candidate, existing, Range(DAY_ORDER))
    IN  /\ (output.conflict = NoConflict) <=> (pairs = {})
        /\ pairs # {} =>
             LET a == candidate[FirstPair(pairs)[1]]
                 b == existing[FirstPair(pairs)[2]]
                 from == Max(a.slot, b.slot)
                 to == Min(a.slot + SpanOfProbe(a), b.slot + SpanOfProbe(b))
             IN  /\ output.conflict.day = a.day
                 /\ output.conflict.existing = b.entry
                 /\ output.conflict.overlap = LabelOfSlots(from..(to - 1))
                 /\ HasRange(b)
        /\ (output.first = NoFirstConflict) <=> (plainPairs = {})
        /\ plainPairs # {} =>
             LET a == candidate[FirstPair(plainPairs)[1]]
                 b == existing[FirstPair(plainPairs)[2]]
             IN  /\ output.first.candidate = a.entry
                 /\ output.first.existing = b.entry
                 /\ a.day \in Range(DAY_ORDER) /\ HasRange(a) /\ HasRange(b)

\* C6 witness: the second candidate overlaps the second existing session,
\* while the first candidate is unschedulable and the first existing session
\* overlaps nothing; the conflict names that pair
C6_Witness ==
  /\ output.op = "detect"
  /\ Len(input.candidate) = 2 /\ Len(input.existing) = 2
  /\ ~(input.candidate[1].day \in Range(DAYS) /\ HasRange(input.candidate[1]))
  /\ OverlappingPairs(input.candidate, input.existing, Range(DAYS)) = {<<2, 2>>}
  /\ output.conflict # NoConflict
  /\ output.conflict.existing = input.existing[2].entry

\* C7: the span is decided by the kind alone: a kind containing "sub" or
\* "lab" (case and white space ignored) is a section of 2 slots, any other
\* kind a lecture of 1 slot, whatever the raw end time; the classification
\* into lecture and section groups agrees with it.
C7_SpanByKind ==
  output.op = "compare" =>
    /\ output.spanA = SpanOfProbe(input.a)
    /\ output.plainSpanA = SpanOfProbe(input.a)
    /\ output.sectionA = input.a.section
    /\ output.lectureA = ~input.a.section

TracksHolding(name) ==
  {t \in DOMAIN output.tracks : name \in Range(output.tracks[t].sections)}

\* the first number of the pair a number belongs to
PairStartOf(n) == IF n % 2 = 0 THEN n - 1 ELSE n

\* C9: when every name is of the shape letters+integer, every name is in the
\* sections of exactly one track; the names Pn and P(n+1), n odd, share one
\* track labelled "Pn/P(n+1)" when both are present, and a name whose
\* partner is absent has a singleton track labelled with the bare name; no
\* name is dropped, also when names differ only in case or inner white space.
C9_EveryNameInOneTrack ==
  (output.op = "tracks" /\ \A i \in DOMAIN input.names : input.names[i].number >= 0) =>
    \A i \in DOMAIN input.names :
      LET me == input.names[i]
          start == PairStartOf(me.number)
          partners == {j \in DOMAIN input.names :
                         /\ j # i
                         /\ input.names[j].prefix = me.prefix
                         /\ PairStartOf(input.names[j].number) = start
                         /\ input.names[j].number # me.number}
          holding == TracksHolding(me.text)
      IN  /\ Cardinality(holding) = 1
          /\ \A t \in holding :
               IF partners = {}
                 THEN /\ output.tracks[t].label = me.text
                      /\ output.tracks[t].sections = <<me.text>>
               ELSE /\ output.tracks[t].label =
                         me.prefix \o NumberToDigits(start) \o <<"/">>
                           \o me.prefix \o NumberToDigits(start + 1)
                    /\ Len(output.tracks[t].sections) = 2
                    /\ \A j \in partners : input.names[j].text \in Range(output.tracks[t].sections)

\* C10: every name that is not of the shape letters+integer, a name that
\* does not begin with a letter included, is kept as its own singleton track
\* labelled with the bare name.
C10_UnmatchedKept ==
  output.op = "tracks" =>
    \A i \in DOMAIN input.names :
      input.names[i].number < 0 =>
        LET holding == TracksHolding(input.names[i].text)
        IN  /\ Cardinality(holding) = 1
            /\ \A t \in holding :
                 /\ output.tracks[t].label = input.names[i].text
                 /\ output.tracks[t].sections = <<input.names[i].text>>

\* the rearrangements of a list
PermutationsOf(list) ==
  {[i \in DOMAIN list |-> list[p[i]]] :
     p \in {q \in [DOMAIN list -> DOMAIN list] : \A i, j \in DOMAIN list : q[i] = q[j] => i = j}}

TextsOf(names) == [i \in DOMAIN names |-> names[i].text]

\* C11: buildMergedTrackOptions returns the same tracks in the same order
\* for every rearrangement of the same distinct names, and the tracks are in
\* ascending order of label under the numeric-aware comparison.
C11_OrderIndependentTracks ==
  output.op = "tracks" =>
    /\ \A names \in PermutationsOf(TextsOf(input.names)) :
         buildMergedTrackOptions(names) = output.tracks
    /\ \A t \in DOMAIN output.tracks :
         t > 1 => localeCompareNumeric(output.tracks[t - 1].label, output.tracks[t].label) <= 0

\* C12: evaluateSchedule returns the same activeDays, gapSlots, late-session
\* count, conflictCount, four sub-scores and overall for every rearrangement
\* of the same list of sessions.
C12_OrderIndependentScore ==
  output.op = "evaluate" =>
    \A sessions \in PermutationsOf(EntriesOfProbes(input.sessions)) :
      evaluateSchedule(sessions) = output.score

\* C12 witness: three sessions, two of them in conflict, one late and a gap,
\* were evaluated
C12_Witness ==
  /\ output.op = "evaluate"
  /\ Len(input.sessions) = 3
  /\ output.score.conflictCount = 1
  /\ output.score.after4Sessions = 1
  /\ output.score.gapSlots > 0

\* the slots the evaluated sessions of one day occupy together, by what the
\* sessions were written to mean
OccupiedOn(d) ==
  UNION {x.slot..(x.slot + SpanOfProbe(x) - 1) :
           x \in {y \in Range(input.sessions) : y.day = d /\ HasRange(y)}}

\* the slots of a day that are free but lie between two occupied slots
IdleSlotsOn(d) ==
  {i \in 0..(NumSlots - 1) :
     /\ i \notin OccupiedOn(d)
     /\ \E a, b \in OccupiedOn(d) : a < i /\ i < b}

\* C13: activeDays is the number of configured days with an occupied slot,
\* and gapSlots is the sum over the configured days of the free slots
\* strictly between the day's first and last occupied slot.
C13_ActiveDaysAndGaps ==
  output.op = "evaluate" =>
    /\ output.score.activeDays = Cardinality({d \in Range(DAYS) : OccupiedOn(d) # {}})
    /\ output.score.gapSlots =
         Cardinality({p \in Range(DAYS) \X (0..(NumSlots - 1)) : p[2] \in IdleSlotsOn(p[1])})

\* C13 witness: two active days, one of them with idle slots inside its span
\* and free slots before and after it
C13_Witness ==
  /\ output.op = "evaluate"
  /\ output.score.activeDays = 2
  /\ output.score.gapSlots = 2
  /\ 0 \notin OccupiedOn("Monday")
  /\ (NumSlots - 1) \notin OccupiedOn("Monday")

\* a session whose day is not a configured day or whose time gives no range
Malformed(x) == x.day \notin Range(DAYS) \/ ~HasRange(x)

\* the list without its i-th element
Without(list, i) == SubSeq(list, 1, i - 1) \o SubSeq(list, i + 1, Len(list))

\* the four metrics of a score
MetricsOf(score) ==
  <<score.activeDays, score.gapSlots, score.after4Sessions, score.conflictCount>>

\* C14: a malformed session adds nothing to activeDays, gapSlots, the
\* late-session count and conflictCount: the evaluation of a list equals the
\* evaluation of the list without any one of its malformed sessions.
C14_MalformedIgnored ==
  output.op = "evaluate" =>
    \A i \in DOMAIN input.sessions :
      Malformed(input.sessions[i]) =>
        MetricsOf(evaluateSchedule(EntriesOfProbes(Without(input.sessions, i))))
          = MetricsOf(output.score)

\* the evaluated sessions, each once, that are counted and start in a slot
\* that begins at or after 16:15
LateOnes == {x \in Range(input.sessions) : ~Malformed(x) /\ x.slot >= 10}

\* the weighted sum of the four sub-scores, in hundredths
WeightedHundredths(score) ==
  34 * score.scoreDays + 30 * score.scoreGaps + 20 * score.scoreLate + 16 * score.scoreConflict

\* C15: the four sub-scores are 100 less 18 per active day after the first,
\* 10 per gap slot, 24 per late session and 40 per conflict, floored at 0;
\* overall is the weighted sum 0.34/0.30/0.20/0.16 rounded to the nearest
\* integer and lies in 0..100; the late sessions are the distinct sessions
\* whose start slot has index 10 or more, the slots that begin at or after
\* 16:15; the empty list scores 0, 0, 0, 0 and overall 100.
C15_ScoreFormulas ==
  /\ \A i \in 0..(NumSlots - 1) : (slotStartByIndex[i + 1] >= 16 * 60 + 15) <=> (i >= 10)
  /\ output.op = "evaluate" =>
       /\ output.score.scoreDays = Max(0, 100 - 18 * Max(0, output.score.activeDays - 1))
       /\ output.score.scoreGaps = Max(0, 100 - 10 * output.score.gapSlots)
       /\ output.score.scoreLate = Max(0, 100 - 24 * output.score.after4Sessions)
       /\ output.score.scoreConflict = Max(0, 100 - 40 * output.score.conflictCount)
       /\ {output.score.scoreDays, output.score.scoreGaps, output.score.scoreLate,
           output.score.scoreConflict, output.score.overall} \subseteq 0..100
       /\ 100 * output.score.overall - 50 <= WeightedHundredths(output.score)
       /\ WeightedHundredths(output.score) < 100 * output.score.overall + 50
       /\ output.score.after4Sessions = Cardinality(LateOnes)
       /\ input.sessions = <<>> =>
            /\ MetricsOf(output.score) = <<0, 0, 0, 0>>
            /\ output.score.overall = 100

\* C15 witness: a late session, a conflict and a weighted sum that rounds up
C15_Witness ==
  /\ output.op = "evaluate"
  /\ output.score.after4Sessions >= 1
  /\ output.score.conflictCount >= 1
  /\ WeightedHundredths(output.score) % 100 >= 50
  /\ \E x \in Range(input.sessions) : x.slot >= 10 /\ x \notin LateOnes

\* the registered courses the planner plans, by id
PlannedIds == {output.alternatives[i].courseId : i \in DOMAIN output.alternatives}

PlannedItem(id) ==
  output.alternatives[CHOOSE i \in DOMAIN output.alternatives :
                        output.alternatives[i].courseId = id]

\* the group ids a registration list holds for a course
SelectionOf(regs, id) ==
  regs[CHOOSE i \in DOMAIN regs : regs[i].courseId = id].selectedGroupIds

\* the key of the combination a plan gives a course
ChosenKey(plan, id) ==
  LET picked == SelectionOf(plan.nextRegistrations, id)
      item == PlannedItem(id)
  IN  item.combos[CHOOSE k \in DOMAIN item.combos :
                    Range(item.combos[k].groupIds) = Range(picked)].key

\* the courses to which a plan gives other groups than the registered ones
MovedCourses(plan) ==
  {i \in DOMAIN registrations :
     Range(plan.nextRegistrations[i].selectedGroupIds) # Range(registrations[i].selectedGroupIds)}

\* C16: every returned plan has changeCount <= maxChanges, and changeCount
\* is the number of registered courses whose combination differs from the
\* current one and the length of the plan's list of changes.
C16_ChangeBudget ==
  output.op = "plan" =>
    \A p \in DOMAIN output.plans :
      /\ output.plans[p].changeCount <= input.maxChanges
      /\ Len(output.plans[p].nextRegistrations) = Len(registrations)
      /\ output.plans[p].changeCount = Cardinality(MovedCourses(output.plans[p]))
      /\ output.plans[p].changeCount = Len(output.plans[p].changes)

\* C16 witness: two free courses planned with one change allowed, and a
\* plan that uses the one change
C16_Witness ==
  /\ output.op = "plan"
  /\ input.maxChanges = 1
  /\ input.locks = <<>> /\ input.flags = <<>>
  /\ Len(registrations) = 2
  /\ \E p \in DOMAIN output.plans : output.plans[p].changeCount = 1

\* leaf a ranks strictly before leaf b
RanksBefore(a, b) ==
  \/ a.damage < b.damage
  \/ a.damage = b.damage /\ a.changeCount < b.changeCount
  \/ a.damage = b.damage /\ a.changeCount = b.changeCount /\ a.score.overall > b.score.overall

\* C17: the returned list holds min(8, recorded leaves) plans in the order
\* damage ascending, then changeCount ascending, then overall descending; no
\* recorded leaf that was left out ranks strictly before a returned plan;
\* each plan's damage is 1200*conflictCount + 18*gapSlots + 28*lateSessions
\* + 4*activeDays of the evaluation of its own sessions.
C17_RankedPlans ==
  output.op = "plan" =>
    /\ Len(output.plans) = Min(8, Len(output.pool))
    /\ \A p \in DOMAIN output.plans :
         /\ p > 1 => ~RanksBefore(output.plans[p], output.plans[p - 1])
         /\ output.plans[p] \in Range(output.pool)
         /\ \A q \in DOMAIN output.pool :
              output.pool[q] \notin Range(output.plans)
                => ~RanksBefore(output.pool[q], output.plans[p])
         /\ output.plans[p].score =
              evaluateSchedule(flattenSessions(courses, output.plans[p].nextRegistrations))
         /\ output.plans[p].damage =
              1200 * output.plans[p].score.conflictCount + 18 * output.plans[p].score.gapSlots
                + 28 * output.plans[p].score.after4Sessions + 4 * output.plans[p].score.activeDays

\* C17 witness: more than eight leaves were recorded, and two returned plans
\* of equal damage differ in their number of changes
C17_Witness ==
  /\ output.op = "plan"
  /\ Len(output.pool) > 8
  /\ Len(output.plans) = 8
  /\ \E p, q \in DOMAIN output.plans :
       /\ output.plans[p].damage = output.plans[q].damage
       /\ output.plans[p].changeCount < output.plans[q].changeCount

\* the lock set for a course, "" when none; whether its box is cleared
LockOf(id) == IF id \in DOMAIN input.locks THEN input.locks[id] ELSE <<>>

Barred(id) == id \in DOMAIN input.flags /\ ~input.flags[id]

KeysOf(id) == {PlannedItem(id).combos[k].key : k \in DOMAIN PlannedItem(id).combos}

\* the eligible combinations of a course as the rule states them
EligibleKeys(id) ==
  IF LockOf(id) \in KeysOf(id) THEN {LockOf(id)}
  ELSE IF Barred(id) THEN {PlannedItem(id).currentKey}
  ELSE KeysOf(id)

\* the assignments of eligible combinations with at most maxChanges changes
EligibleAssignments ==
  {f \in [PlannedIds -> UNION {KeysOf(id) : id \in PlannedIds}] :
     /\ \A id \in PlannedIds : f[id] \in EligibleKeys(id)
     /\ Cardinality({id \in PlannedIds : f[id] # PlannedItem(id).currentKey}) <= input.maxChanges}

RecordedAssignments ==
  {[id \in PlannedIds |-> ChosenKey(output.pool[q], id)] : q \in DOMAIN output.pool}

\* C18: the eligible combinations of a course are its locked combination
\* alone when a lock names one of its combinations, otherwise all its
\* combinations, or the current one alone when allowChange is false: the
\* search records the assignments of eligible combinations within
\* maxChanges.  In every returned plan a locked course has its locked
\* combination and a course with allowChange false its current one, and
\* with maxChanges 1, one course locked to its current combination and the
\* other free, the changes of a plan name the free course at most.
C18_EligibleCombinations ==
  (output.op = "plan" /\ output.alternatives # <<>>) =>
    /\ Len(output.pool) < input.limit => RecordedAssignments = EligibleAssignments
    /\ \A p \in DOMAIN output.plans, id \in PlannedIds :
         /\ LockOf(id) \in KeysOf(id) => ChosenKey(output.plans[p], id) = LockOf(id)
         /\ Barred(id) => ChosenKey(output.plans[p], id) = PlannedItem(id).currentKey
    /\ \A id \in PlannedIds :
         (/\ input.maxChanges = 1
          /\ Cardinality(PlannedIds) = 2
          /\ LockOf(id) = PlannedItem(id).currentKey
          /\ DOMAIN input.locks = {id}
          /\ input.flags = <<>>)
           => \A p \in DOMAIN output.plans :
                \A c \in DOMAIN output.plans[p].changes :
                  output.plans[p].changes[c].courseId # id

\* the damage of the registered schedule as it stands
RegisteredDamage == damageOf(evaluateSchedule(flattenSessions(courses, registrations)))

\* every planned course is locked to its current combination or barred
AllPinned ==
  \A id \in PlannedIds : LockOf(id) = PlannedItem(id).currentKey \/ Barred(id)

\* C19: when every registered course is locked to its current combination
\* or has allowChange false, exactly one plan is returned, with changeCount
\* 0, the damage of the current schedule and improves false; in general
\* improves is true iff the plan's damage is less than the damage of the
\* current unmodified schedule, whatever preview is active in the view.
C19_ImprovesAgainstCurrent ==
  (output.op = "plan" /\ output.alternatives # <<>>) =>
    /\ (AllPinned /\ \A id \in PlannedIds : LockOf(id) \in {<<>>, PlannedItem(id).currentKey})
         => /\ Len(output.pool) = 1
            /\ Len(output.plans) = 1
            /\ output.plans[1].changeCount = 0
            /\ output.plans[1].damage = RegisteredDamage
            /\ ~output.plans[1].improves
    /\ \A p \in DOMAIN output.plans :
         output.plans[p].improves <=> output.plans[p].damage < RegisteredDamage

\* the leaves a search under the limit of the code records
UncappedPool ==
  planSearch(MAX_PLAN_SEARCH_LIMIT, courses, registrations, output.alternatives,
             output.currentDamage, input.locks, input.flags, input.maxChanges).pool

\* C20: the search records at most `limit` leaves, under a smaller limit
\* than the code's the leaves it records are the first `limit` leaves of
\* the enumeration under the code's limit, and the run ends with
\* the ranking of the recorded leaves and a notice that is no error; with
\* no registered course it records nothing and returns the empty list.
C20_BoundedSearch ==
  output.op = "plan" =>
    /\ Len(output.pool) <= input.limit
    /\ input.limit < MAX_PLAN_SEARCH_LIMIT
         => output.pool = SubSeq(UncappedPool, 1, Min(input.limit, Len(UncappedPool)))
    /\ output.plans = SubSeq(sortByRank(output.pool), 1, Min(8, Len(output.pool)))
    /\ damagePlans = output.plans
    /\ notice.type \in {"info", "success"}
    /\ registrations = <<>> => output.pool = <<>> /\ output.plans = <<>>

\* C20 witness: the search stopped at the limit with leaves left to visit
\* and returned the leaves it had as plans
C20_Witness ==
  /\ output.op = "plan"
  /\ input.limit = ScaledSearchLimit
  /\ Len(output.pool) = input.limit
  /\ Len(UncappedPool) > input.limit
  /\ Len(output.plans) = input.limit
  /\ notice.type = "success"

\* the fields of a session that an override sets
EffectiveFields(session) ==
  <<Get(session, "Staff", <<>>), session.Time, session.DayWeekName, session.DayWeek>>

\* C21: applying an override map to the result of applying it gives the
\* same staff, time, day name and day code as applying it once, also when
\* the patch changes the day; and submitting the same "modify same track"
\* patch for the same session twice leaves the override map as it was after
\* the first submission.
C21_IdempotentOverrides ==
  output.op = "override" =>
    /\ EffectiveFields(output.twice.session) = EffectiveFields(output.once.session)
    /\ output.mapTwice = output.mapOnce

\* the ids of the tracks offered in a panel state, and of the tracks that
\* have an entry in its trackOverrides
TrackIdsOf(panel) ==
  {optionsOf(courses, panel)[i].id : i \in DOMAIN optionsOf(courses, panel)}

OverriddenIdsOf(panel) == {panel.trackOverrides[i].id : i \in DOMAIN panel.trackOverrides}

\* every track but T and every override map but T's are the same in both
OthersKept(before, after, T) ==
  /\ optionsOf(courses, after)
       = SelectSeq(optionsOf(courses, before), LAMBDA track : track.id # T.id)
  /\ \A id \in (OverriddenIdsOf(before) \cup OverriddenIdsOf(after)) \ {T.id} :
       overrideMapOf(after.trackOverrides, id) = overrideMapOf(before.trackOverrides, id)

\* the active selection of a panel state is the track of the id, none for ""
SelectionIs(panel, id) ==
  /\ panel.globalTrackPick = id
  /\ IF id = <<>> THEN panel.globalTrack = NoGlobalTrack
     ELSE panel.globalTrack.trackId = id

\* C22: removeModifiedTrack on a modified track T leaves T out of the track
\* options and trackOverrides without an entry for T, and every other track
\* and every other track's override map as they were; if T was the active
\* selection, the active selection becomes T's base track (no selection when
\* T has no base), and otherwise the active selection is unchanged.
C22_RemoveModifiedTrack ==
  modifyTrackIsRemovable(courses, Panel) =>
    LET removal(T, after) ==
          /\ T.id \notin TrackIdsOf(after)
          /\ T.id \notin OverriddenIdsOf(after)
          /\ OthersKept(Panel, after, T)
          /\ globalTrackPick = T.id => SelectionIs(after, Get(T, "baseTrackId", <<>>))
          /\ globalTrackPick # T.id =>
               /\ after.globalTrackPick = globalTrackPick
               /\ after.globalTrack = globalTrack
    IN  removal(modifyTargetTrack(courses, Panel), removeModifiedTrack(courses, Panel))

\* C28: after any sequence of track selections, copies, modifications,
\* reverts and removals, globalTrackPick is empty or the id of a track in the
\* track options, and globalTrack is null or names a track in the track
\* options that is the one globalTrackPick names.
C28_SelectionNeverDangles ==
  /\ globalTrackPick = <<>> \/ globalTrackPick \in TrackIdsOf(Panel)
  /\ \/ globalTrack = NoGlobalTrack
     \/ /\ globalTrack.trackId \in TrackIdsOf(Panel)
        /\ globalTrack.trackId = globalTrackPick

\* the panel states a "modify same track" submission that passes the checks
\* of the form leaves, for the track T of the panel
RegularPatches(panel, T) ==
  {applyTrackModification(courses, panel, form, now) :
     form \in {f \in ModifyForms(editableSessionOptions(courses, T)) :
                 f.mode = "regular" /\ modificationAccepted(courses, panel, f)}}

\* C23: revertTrackChanges on a track T removes T's entry from trackOverrides
\* and leaves every other track's override map and the list of tracks, T
\* included, as they were; and after one or two "modify same track" patches
\* of a track without overrides, reverting it gives the trackOverrides there
\* was before the first patch (the patches of the submissions followed).
C23_RevertTrackChanges ==
  LET T == modifyTargetTrack(courses, Panel)
      reverted(before, after) ==
        /\ T.id \notin OverriddenIdsOf(after)
        /\ \A id \in (OverriddenIdsOf(before) \cup OverriddenIdsOf(after)) \ {T.id} :
             overrideMapOf(after.trackOverrides, id) = overrideMapOf(before.trackOverrides, id)
        /\ optionsOf(courses, after) = optionsOf(courses, before)
        /\ after.customTrackOptions = before.customTrackOptions
        /\ after.removedModifiedTrackIds = before.removedModifiedTrackIds
        /\ T.id \in TrackIdsOf(after)
      restores(panel) == revertTrackChanges(courses, panel).trackOverrides = trackOverrides
  IN  T # NoTrack =>
        /\ reverted(Panel, revertTrackChanges(courses, Panel))
        /\ (T.id \notin OverriddenIdsOf(Panel) /\ now < MaxModifications) =>
             \A once \in RegularPatches(Panel, T) :
               /\ restores(once)
               /\ \A twice \in RegularPatches(once, T) : restores(twice)

\* a revert has run while another track kept its overrides
C23_Witness ==
  /\ notice.title = "Reverted"
  /\ trackOverrides # <<>>
  /\ modifyTrackId \notin OverriddenIdsOf(Panel)

\* the panel states a "create modified copy" submission that passes the
\* checks of the form leaves, each with the session keys targeted and the
\* patch requested
CopiesOf(panel, B) ==
  LET editable == editableSessionOptions(courses, B)
  IN  {[after |-> applyTrackModification(courses, panel, form, now),
        targetKeys |-> editable[form.option].targetKeys,
        payload |-> payloadOf(form.staff, form.start, form.day, editable[form.option].sample)] :
         form \in {f \in ModifyForms(editable) :
                     f.mode = "new" /\ modificationAccepted(courses, panel, f)}}

\* C24: "create modified copy" on base track B with a non-empty patch adds
\* exactly one track N, with an id and a label no existing track has, the
\* prefix and the sections of B, isModified set and baseTrackId = B.id; N's
\* override map holds the patch under every targeted session key; B's record,
\* B's override map and every other track's override map are unchanged; and N
\* is the active selection.
C24_CreateModifiedCopy ==
  LET B == modifyTargetTrack(courses, Panel)
      before == optionsOf(courses, Panel)
      ids == {before[i].id : i \in DOMAIN before}
      copied(after, targetKeys, payload) ==
        LET options == optionsOf(courses, after)
            added == SelectSeq(options, LAMBDA track : track.id \notin ids)
            N == added[1]
            map == overrideMapOf(after.trackOverrides, N.id)
        IN  /\ Len(added) = 1
            /\ SelectSeq(options, LAMBDA track : track.id \in ids) = before
            /\ Len(options) = Len(before) + 1
            /\ \A i \in DOMAIN before : before[i].label # N.label
            /\ N.prefix = B.prefix
            /\ N.sections = B.sections
            /\ N.isModified
            /\ N.baseTrackId = B.id
            /\ \A k \in DOMAIN targetKeys :
                 /\ targetKeys[k] \in DOMAIN map
                 /\ \A field \in DOMAIN payload :
                      /\ field \in DOMAIN map[targetKeys[k]]
                      /\ map[targetKeys[k]][field] = payload[field]
            /\ \A id \in (OverriddenIdsOf(Panel) \cup OverriddenIdsOf(after)) \ {N.id} :
                 overrideMapOf(after.trackOverrides, id) = overrideMapOf(trackOverrides, id)
            /\ SelectionIs(after, N.id)
  IN  B # NoTrack =>
        \A copy \in CopiesOf(Panel, B) : copied(copy.after, copy.targetKeys, copy.payload)

\* a second copy of a track has been created and is the active selection
C24_Witness ==
  /\ "message" \in DOMAIN notice
  /\ notice.message = "created successfully."
  /\ Len(customTrackOptions) = 2
  /\ customTrackOptions[1].baseTrackId = customTrackOptions[2].baseTrackId
  /\ globalTrackPick = customTrackOptions[2].id
  /\ globalTrackPick \in OverriddenIdsOf(Panel)

\* the fields a patch can set
PatchFields == {"Staff", "Time", "DayWeekName", "DayWeek"}

\* C25: overrides compose per session key and later patches win: after a
\* patch of a session key of a track, each field of the effective session is
\* the one the patch set, else the one the earlier patches of the key had
\* set, else the one of the base session; this for "modify same track" and
\* for a patch that seeds a modified copy of a track overriding the key.
C25_OverridesCompose ==
  LET T == modifyTargetTrack(courses, Panel)
      editable == editableSessionOptions(courses, T)
      shown == editableTrackSessions(courses, T)
      oldMap == overrideMapOf(trackOverrides, T.id)
      composed(form, after) ==
        LET R == IF form.mode = "new"
                   THEN trackById(optionsOf(courses, after), after.globalTrackPick)
                 ELSE T
            newMap == overrideMapOf(after.trackOverrides, R.id)
            payload == payloadOf(form.staff, form.start, form.day, editable[form.option].sample)
            targetKeys == editable[form.option].targetKeys
            effective(raw, map) == applyTrackSpecificAdjustments(raw, raw.courseId, R, map).session
            expected(raw, field) ==
              LET earlier == Get(oldMap, raw.sessionKey, <<>>)
              IN  IF field \in DOMAIN payload THEN payload[field]
                  ELSE IF field \in DOMAIN earlier THEN earlier[field]
                  ELSE Get(effective(raw, NoOverrides), field, <<>>)
        IN  \A i \in DOMAIN shown :
              shown[i].sessionKey \in Range(targetKeys) =>
                \A field \in PatchFields :
                  Get(effective(shown[i], newMap), field, <<>>) = expected(shown[i], field)
  IN  T # NoTrack =>
        \A form \in {f \in ModifyForms(editable) : modificationAccepted(courses, Panel, f)} :
          composed(form, applyTrackModification(courses, Panel, form, now))

\* C26: every plan returned by generateDamagePlans carries a registration
\* list with the course ids of the registration list at generation time in
\* the same order, one entry per course, each with one lecture group and at
\* most one section group of the course; the list differs from the current
\* one exactly in the courses of the plan's diff list; the plan's score is
\* evaluateSchedule of the sessions of the list; and the run leaves the
\* registration list, the override state and the track selection as they were.
C26_PlanRegistrations ==
  output.op = "plan" =>
    LET idsOf(groups) == {groups[g].id : g \in DOMAIN groups}
        entryOf(reg, course) ==
          LET picked == reg.selectedGroupIds
          IN  /\ Cardinality({k \in DOMAIN picked : picked[k] \in idsOf(lectureGroupsOf(course))}) = 1
              /\ Cardinality({k \in DOMAIN picked : picked[k] \in idsOf(subgroupGroupsOf(course))}) <= 1
              /\ \A k \in DOMAIN picked :
                   picked[k] \in idsOf(lectureGroupsOf(course)) \cup idsOf(subgroupGroupsOf(course))
        listed(plan, next) ==
          /\ [i \in DOMAIN next |-> next[i].courseId]
               = [i \in DOMAIN registrations |-> registrations[i].courseId]
          /\ \A i, j \in DOMAIN next : next[i].courseId = next[j].courseId => i = j
          /\ \A i \in DOMAIN next : entryOf(next[i], coursesById(courses, next[i].courseId))
          /\ {next[i].courseId : i \in {j \in DOMAIN next : next[j] # registrations[j]}}
               = {plan.changes[k].courseId : k \in DOMAIN plan.changes}
          /\ plan.score = evaluateSchedule(flattenSessions(courses, next))
    IN  /\ \A p \in DOMAIN output.plans :
             listed(output.plans[p], output.plans[p].nextRegistrations)
        /\ registeredCourseAlternatives(courses, registrations) = output.alternatives
        /\ TrackPanelAtStart

\* plans were returned for two registered courses, one of them changing the
\* section of a course and nothing else
C26_Witness ==
  /\ output.op = "plan"
  /\ Len(registrations) = 2
  /\ \E p \in DOMAIN output.plans :
       /\ output.plans[p].changeCount = 1
       /\ \E i \in DOMAIN registrations :
            /\ Len(registrations[i].selectedGroupIds) = 2
            /\ output.plans[p].nextRegistrations[i] # registrations[i]
            /\ output.plans[p].nextRegistrations[i].selectedGroupIds[1]
                 = registrations[i].selectedGroupIds[1]

\* the registered sessions as the schedule table shows them, i.e. with the
\* overrides applied
EffectiveSessions(regs) ==
  tableSessions(flattenSessions(courses, regs), <<>>, <<>>, trackOverrides, ActiveTrackOption)

\* C27: the conflict check of a registration attempt and the planner's
\* evaluation of a plan are made on the effective sessions: an attempt is
\* refused for a conflict exactly when the candidate overlaps a registered
\* session at the position the overrides give it, and the score of a plan is
\* evaluateSchedule of the effective sessions of its registration list.
C27_EffectiveSessions ==
  LET attempt(course, lecturePick, subPick) ==
        LET chosenIds == chosenIdsOf(lecturePick, subPick)
            own == flattenSessions(courses, <<[courseId |-> course.id,
                                               selectedGroupIds |-> chosenIds]>>)
            shown == EffectiveSessions(<<[courseId |-> course.id,
                                          selectedGroupIds |-> chosenIds]>>)
            unmoved == \A i \in DOMAIN own, j \in DOMAIN shown :
                         shown[j].GroupId = own[i].GroupId =>
                           EffectiveFields(shown[j]) = EffectiveFields(applyStaffPreset(own[i]))
            refused == registerSelection(courses, registrations, course, lecturePick,
                                         subPick).notice.title = "Conflict Detected"
            blocked == findConflict(candidateOf(course, chosenIds),
                                    EffectiveSessions(othersOf(registrations, course.id)))
                         # NoConflict
        IN  (validationMessage(course, lecturePick, subPick) = "" /\ unmoved)
              => (refused <=> blocked)
  IN  /\ \A c \in DOMAIN courses :
           \A pick \in FormPicks(courses[c]) : attempt(courses[c], pick[1], pick[2])
      /\ \A p \in DOMAIN damagePlans :
           damagePlans[p].score
             = evaluateSchedule(EffectiveSessions(damagePlans[p].nextRegistrations))

\* C29: applyDamagePlan changes only the selections of the courses of the
\* applied plan's diff list and neither adds nor removes a course relative to
\* the registration list it is applied to, also when the plan was generated
\* before a later registration or cancellation: a cancelled course stays
\* absent and a course registered since stays registered.
C29_ApplyStalePlan ==
  \A p \in DOMAIN damagePlans :
    LET plan == damagePlans[p]
        changed == {plan.changes[k].courseId : k \in DOMAIN plan.changes}
        kept(after) ==
          /\ {after[i].courseId : i \in DOMAIN after}
               = {registrations[i].courseId : i \in DOMAIN registrations}
          /\ \A i \in DOMAIN registrations :
               registrations[i].courseId \notin changed =>
                 \E j \in DOMAIN after : after[j] = registrations[i]
    IN  kept(applyDamagePlan(damagePlans, registrations, preview, notice,
                             plan.id).registrations)

\* C30: applying a plan keeps the schedule conflict-free: when no two
\* registered sessions overlap, then for every plan generateDamagePlans
\* returns from that state, no two sessions registered after applying the
\* plan overlap.
C30_PlansKeepConflictFree ==
  (output.op = "plan" /\ countSessionConflicts(flattenSessions(courses, registrations)) = 0) =>
    \A p \in DOMAIN output.plans :
      LET after == applyDamagePlan(output.plans, registrations, preview, notice,
                                   output.plans[p].id).registrations
      IN  countSessionConflicts(flattenSessions(courses, after)) = 0

====
